---- MODULE Spec2Model ----
(***************************************************************************)
(* State-machine model of the tev image viewer core: the image list and    *)
(* its selection (ImageViewer), the statistics cache of the canvas         *)
(* (ImageCanvas::canvasStatistics), the per-frame work of draw_contents(), *)
(* the file-dialog thread and the UI task queue, and the tonemapping       *)
(* controls.  Strings are sequences of one-character strings so that the   *)
(* formatting of cache keys and the parsing of filters and group names are *)
(* computed, not assumed.                                                  *)
(***************************************************************************)
EXTENDS Integers, Sequences, FiniteSets, TLC

(***************************************************************************)
(* Bounds of the model                                                     *)
(***************************************************************************)
\* number of Image objects the loader can create in one behaviour
MaxImages == 2
\* number of user / environment operations in one behaviour
MaxOps == 3
\* number of file dialogs opened in one behaviour
MaxDialogs == 2

(***************************************************************************)
(* Program constants                                                       *)
(***************************************************************************)
\* nullptr for shared_ptr<Image> and unique_ptr<thread>
NoImage == 0
NoThread == 0
\* ETonemap: SRGB = 0, Gamma = 1, FalseColor = 2, PositiveNegative = 3
NumTonemaps == 4
\* EMetric: Error = 0, AbsoluteError = 1, SquaredError = 2, RelativeAbsoluteError = 3,
\* RelativeSquaredError = 4, RelativeSquaredError2 = 5, LogAbsoluteError = 6
NumMetrics == 7
AbsoluteError == 1
\* the radio buttons created by the constructor
NumTonemapButtons == 4
NumMetricButtons == 5
\* default gamma 2.2, in thousandths
DefaultGamma == 2200

\* Affine2f::Identity(): a linear part, by rows, and a translation, of fractions n/d
Identity ==
    [linear |-> <<<<[n |-> 1, d |-> 1], [n |-> 0, d |-> 1]>>, <<[n |-> 0, d |-> 1], [n |-> 1, d |-> 1]>>>>,
     translation |-> <<[n |-> 0, d |-> 1], [n |-> 0, d |-> 1]>>]

(***************************************************************************)
(* Strings                                                                 *)
(***************************************************************************)
Digits == <<"0", "1", "2", "3", "4", "5", "6", "7", "8", "9">>

\* "%d" of a non-negative integer
RECURSIVE FormatInt(_)
FormatInt(n) == IF n < 10 THEN <<Digits[n + 1]>> ELSE FormatInt(n \div 10) \o <<Digits[(n % 10) + 1]>>

\* join(strings, delim)
RECURSIVE join(_, _)
join(strs, delim) ==
    IF Len(strs) = 0 THEN <<>>
    ELSE IF Len(strs) = 1 THEN strs[1]
    ELSE strs[1] \o delim \o join(Tail(strs), delim)

\* string::find(c): first position of c, 0 when absent
find(str, c) == IF \E k \in 1..Len(str) : str[k] = c
                THEN CHOOSE k \in 1..Len(str) : str[k] = c /\ \A j \in 1..(k - 1) : str[j] # c
                ELSE 0

\* string::rfind(c) / find_last_of(c): last position of c, 0 when absent
rfind(str, c) == IF \E k \in 1..Len(str) : str[k] = c
                 THEN CHOOSE k \in 1..Len(str) : str[k] = c /\ \A j \in (k + 1)..Len(str) : str[j] # c
                 ELSE 0

\* string_view::ends_with for a one-character component
endsWith(str, c) == Len(str) > 0 /\ str[Len(str)] = c

RECURSIVE removeTrailingDots(_)
removeTrailingDots(str) ==
    IF Len(str) > 0 /\ str[Len(str)] = "." THEN removeTrailingDots(SubSeq(str, 1, Len(str) - 1)) ELSE str

Components == {"R", "G", "B", "A", "X", "Y", "Z", "U", "V", "L", "r", "g", "b", "a", "x", "y", "z", "u", "v", "l"}
Alpha == Components \cup {"c", "d", "e", "i", "m"}

extractGroupBaseName(groupName) ==
    LET parenPos == find(groupName, "(")
        dotPos == rfind(groupName, ".")
        stripped ==
            IF parenPos # 0 THEN SubSeq(groupName, 1, parenPos - 1)
            ELSE IF dotPos # 0 THEN SubSeq(groupName, 1, dotPos)
            ELSE IF Len(groupName) > 1 /\ groupName[Len(groupName)] \in Components
                    /\ groupName[Len(groupName) - 1] \notin Alpha
                 THEN SubSeq(groupName, 1, Len(groupName) - 1)
            ELSE groupName
    IN removeTrailingDots(stripped)

(***************************************************************************)
(* Images                                                                  *)
(***************************************************************************)
Images == 1..MaxImages

\* Image::name(): every image object has its own name
imageName(img) == FormatInt(img)

\* Image::channelGroups(): odd images hold two single-channel groups, even images one
\* two-channel group
channelGroups(img) ==
    IF img % 2 = 1
    THEN << [name |-> <<"a">>, channels |-> << <<"a">> >>],
            [name |-> <<"a", "-", "1", "-", "1">>, channels |-> << <<"a", "-", "1", "-", "1">> >>] >>
    ELSE << [name |-> <<"a", ",", "b">>, channels |-> << <<"a">>, <<"b">> >>] >>

\* Image::channelsInGroup(groupName)
channelsInGroup(img, groupName) ==
    LET groups == channelGroups(img)
    IN IF \E k \in 1..Len(groups) : groups[k].name = groupName
       THEN groups[CHOOSE k \in 1..Len(groups) : groups[k].name = groupName].channels
       ELSE <<>>

(***************************************************************************)
(* State                                                                   *)
(***************************************************************************)
VARIABLES
    \* ImageViewer
    mImages,                \* vector<shared_ptr<Image>>
    mImageButtonContainer,  \* its children: for every image button, the image its callbacks hold
    buttonVisible,          \* ImageButton::visible() of the button of each listed image
    groupButtonVisible,     \* visible() of the buttons of mGroupButtonContainer
    mCurrentImage,
    mCurrentReference,
    mCurrentGroup,
    mFilter,                \* mFilter->value()
    mRequiresFilterUpdate,
    mToBump,
    mTaskQueue,
    mFileDialogThread,
    mSyncTonemapping,       \* mSyncTonemapping->checked()
    mImageExposures,
    mImageOffsets,
    mImageGammas,
    tonemapButtons,         \* pushed() of the children of mTonemapButtonContainer
    metricButtons,          \* pushed() of the children of mMetricButtonContainer
    mHistogramScale,
    mHistogram,             \* what the histogram widget shows
    errorDialogs,           \* MessageDialogs created by showErrorDialog
    \* ImageCanvas
    canvas,                 \* mImage, mReference, mRequestedChannelGroup, mMetric, mTonemap, ...
    mMeanValues,            \* the statistics cache, in insertion order
    \* Image
    imageIds,               \* Image::id() of every created image
    sId,                    \* the next id handed out
    \* background loader, dialog threads, process
    loaderRequests,         \* loads enqueued in mImagesLoader
    loaderQueue,            \* completed loads waiting for tryPop()
    dialogThreads,          \* state of every file-dialog thread started
    threadedDialogs,        \* FALSE on builds that run the dialog on the UI thread
    uiWaits,                \* the handle in whose get() the UI thread is blocked, 0 if none
    crashed,                \* the process ended abnormally
    \* bookkeeping of the verification
    ops,                    \* operations performed
    refused,                \* number of dialog requests refused because a dialog thread exists
    callLog,                \* (key tuple, handle) of every canvasStatistics() call
    scheduled,              \* closures passed to scheduleToUiThread, in order
    executed,               \* closures executed, in order, with the loader results still queued then
    \* calls of the pure functions of ImageCanvas
    args,                   \* the arguments of the call
    returned,               \* what the call returned, [kind |-> "none"] before it
    \* the crop window
    mCurrCrop,              \* ImageViewer::mCurrCrop, an optional box
    cropText,               \* the values of the six crop text boxes
    mDragType,              \* EMouseDragType: "None", "ImageDrag", "ImageCrop", "ImageButtonDrag"
    mDraggedImageButtonId,  \* position, from 0, of the image button that is dragged
    mDraggingStartPosition, \* where the mouse button went down
    cropList,               \* the boxes of the crop-list buttons, in order
    \* the pixel locator
    mFoundPixels,           \* the (position, value) pairs of the last range search
    mCurrentFoundPixelIdx,  \* index into mFoundPixels, from 0, or -1
    mPixelLocatorPrimaryHighlight, \* an optional position
    findNextEnabled,        \* whether mFindNextRangeButton is enabled
    \* a worker of the statistics
    statistics              \* the call of computeCanvasStatistics in progress, with its locals

vars == <<mImages, mImageButtonContainer, mDraggedImageButtonId, buttonVisible, groupButtonVisible, mCurrentImage, mCurrentReference, mCurrentGroup,
          mFilter, mRequiresFilterUpdate, mToBump, mTaskQueue, mFileDialogThread, mSyncTonemapping,
          mImageExposures, mImageOffsets, mImageGammas, tonemapButtons, metricButtons, mHistogramScale,
          mHistogram, errorDialogs, canvas, mMeanValues, imageIds, sId, loaderRequests, loaderQueue,
          dialogThreads, threadedDialogs, crashed, uiWaits, ops, refused, callLog,
          scheduled,
          executed, args, returned,
          mCurrCrop, cropText, mDragType, mDraggingStartPosition, cropList,
          mFoundPixels, mCurrentFoundPixelIdx, mPixelLocatorPrimaryHighlight, findNextEnabled,
          statistics>>

\* the whole state as one record, so that handlers compose as the calls in the code do
St == [mImages |-> mImages, mImageButtonContainer |-> mImageButtonContainer,
       mDraggedImageButtonId |-> mDraggedImageButtonId, buttonVisible |-> buttonVisible, groupButtonVisible |-> groupButtonVisible,
       mCurrentImage |-> mCurrentImage, mCurrentReference |-> mCurrentReference,
       mCurrentGroup |-> mCurrentGroup, mFilter |-> mFilter,
       mRequiresFilterUpdate |-> mRequiresFilterUpdate, mToBump |-> mToBump, mTaskQueue |-> mTaskQueue,
       mFileDialogThread |-> mFileDialogThread, mSyncTonemapping |-> mSyncTonemapping,
       mImageExposures |-> mImageExposures, mImageOffsets |-> mImageOffsets, mImageGammas |-> mImageGammas,
       tonemapButtons |-> tonemapButtons, metricButtons |-> metricButtons,
       mHistogramScale |-> mHistogramScale, mHistogram |-> mHistogram, errorDialogs |-> errorDialogs,
       canvas |-> canvas, mMeanValues |-> mMeanValues, imageIds |-> imageIds, sId |-> sId,
       loaderRequests |-> loaderRequests, loaderQueue |-> loaderQueue, dialogThreads |-> dialogThreads,
       threadedDialogs |-> threadedDialogs, crashed |-> crashed, uiWaits |-> uiWaits, ops |-> ops, refused |-> refused,
       callLog |-> callLog, scheduled |-> scheduled,
       executed |-> executed, args |-> args, returned |-> returned,
       mCurrCrop |-> mCurrCrop, cropText |-> cropText, mDragType |-> mDragType,
       mDraggingStartPosition |-> mDraggingStartPosition, cropList |-> cropList,
       mFoundPixels |-> mFoundPixels, mCurrentFoundPixelIdx |-> mCurrentFoundPixelIdx,
       mPixelLocatorPrimaryHighlight |-> mPixelLocatorPrimaryHighlight, findNextEnabled |-> findNextEnabled,
       statistics |-> statistics]

Becomes(s) ==
    /\ mImages' = s.mImages /\ buttonVisible' = s.buttonVisible
    /\ mImageButtonContainer' = s.mImageButtonContainer
    /\ mDraggedImageButtonId' = s.mDraggedImageButtonId
    /\ groupButtonVisible' = s.groupButtonVisible
    /\ mCurrentImage' = s.mCurrentImage /\ mCurrentReference' = s.mCurrentReference
    /\ mCurrentGroup' = s.mCurrentGroup /\ mFilter' = s.mFilter
    /\ mRequiresFilterUpdate' = s.mRequiresFilterUpdate /\ mToBump' = s.mToBump
    /\ mTaskQueue' = s.mTaskQueue /\ mFileDialogThread' = s.mFileDialogThread
    /\ mSyncTonemapping' = s.mSyncTonemapping
    /\ mImageExposures' = s.mImageExposures /\ mImageOffsets' = s.mImageOffsets
    /\ mImageGammas' = s.mImageGammas
    /\ tonemapButtons' = s.tonemapButtons /\ metricButtons' = s.metricButtons
    /\ mHistogramScale' = s.mHistogramScale /\ mHistogram' = s.mHistogram
    /\ errorDialogs' = s.errorDialogs
    /\ canvas' = s.canvas /\ mMeanValues' = s.mMeanValues
    /\ imageIds' = s.imageIds /\ sId' = s.sId
    /\ loaderRequests' = s.loaderRequests /\ loaderQueue' = s.loaderQueue
    /\ dialogThreads' = s.dialogThreads /\ threadedDialogs' = s.threadedDialogs
    /\ crashed' = s.crashed /\ uiWaits' = s.uiWaits /\ ops' = s.ops /\ refused' = s.refused /\ callLog' = s.callLog
    /\ scheduled' = s.scheduled
    /\ executed' = s.executed
    /\ args' = s.args /\ returned' = s.returned
    /\ mCurrCrop' = s.mCurrCrop /\ cropText' = s.cropText /\ mDragType' = s.mDragType
    /\ mDraggingStartPosition' = s.mDraggingStartPosition /\ cropList' = s.cropList
    /\ mFoundPixels' = s.mFoundPixels /\ mCurrentFoundPixelIdx' = s.mCurrentFoundPixelIdx
    /\ mPixelLocatorPrimaryHighlight' = s.mPixelLocatorPrimaryHighlight
    /\ findNextEnabled' = s.findNextEnabled
    /\ statistics' = s.statistics

\* a user or environment operation counts against MaxOps
BeginOp(s) == [s EXCEPT !.ops = s.ops + 1]

Range(seq) == {seq[k] : k \in 1..Len(seq)}

(***************************************************************************)
(* ImageViewer: tonemapping values                                         *)
(***************************************************************************)
\* round(value, decimals) on values in thousandths: unit 100 is one decimal, unit 10 two
round(value, unit) ==
    IF value >= 0 THEN ((value + unit \div 2) \div unit) * unit
    ELSE -((((-value) + unit \div 2) \div unit) * unit)

\* the assignment (*componentMap)[img] = value of an unordered_map
mapSet(map, imgs, value) == [i \in (DOMAIN map) \cup imgs |-> IF i \in imgs THEN value ELSE map[i]]

\* a store that changes the current image only, whatever the Sync checkbox says
storeCurrentOnly(s, map, value) ==
    IF s.mCurrentImage # NoImage THEN mapSet(map, {s.mCurrentImage}, value) ELSE map

storeTonemappingValue(s, map, value) ==
    IF s.mSyncTonemapping
    THEN mapSet(map, Range(s.mImages) \cup (IF s.mCurrentImage # NoImage THEN {s.mCurrentImage} ELSE {}), value)
    ELSE IF s.mCurrentImage # NoImage THEN mapSet(map, {s.mCurrentImage}, value)
    ELSE map

setExposure(s, value) ==
    LET v == round(value, 100)
    IN [s EXCEPT !.mImageExposures = storeTonemappingValue(s, s.mImageExposures, v), !.canvas.mExposure = v]

setOffset(s, value) ==
    LET v == round(value, 10)
    IN [s EXCEPT !.mImageOffsets = storeTonemappingValue(s, s.mImageOffsets, v), !.canvas.mOffset = v]

setGamma(s, value) ==
    LET v == round(value, 10)
    IN [s EXCEPT !.mImageGammas = storeTonemappingValue(s, s.mImageGammas, v), !.canvas.mGamma = v]

\* the stored value of the image, or the default
storedOr(map, img, default) == IF img \in DOMAIN map THEN map[img] ELSE default

resetImage(s) ==
    LET cleared == IF s.mSyncTonemapping
                   THEN [s EXCEPT !.mImageExposures = <<>>, !.mImageOffsets = <<>>, !.mImageGammas = <<>>]
                   ELSE s
    IN setGamma(setOffset(setExposure(cleared, 0), 0), DefaultGamma)

\* the callback of the Sync checkbox, run after the box changed to `checked`
syncTonemappingCallback(s, checked) ==
    LET gamma(t, cur, value) ==
            setGamma([t EXCEPT !.mImageGammas = mapSet(t.mImageGammas, (DOMAIN t.mImageGammas) \cup {cur}, value)], value)
        offset(t, cur, value) ==
            (LET after(u) == gamma(u, cur, storedOr(u.mImageGammas, cur, DefaultGamma))
             IN after(setOffset([t EXCEPT !.mImageOffsets =
                                     mapSet(t.mImageOffsets, (DOMAIN t.mImageOffsets) \cup {cur}, value)], value)))
        exposure(t, cur) ==
            (LET after(u) == offset(u, cur, storedOr(u.mImageOffsets, cur, 0))
             IN after(setExposure(t, storedOr(t.mImageExposures, cur, 0))))
        callback(t) == IF checked /\ t.mCurrentImage # NoImage THEN exposure(t, t.mCurrentImage) ELSE t
    IN callback([s EXCEPT !.mSyncTonemapping = checked])

setTonemap(s, tonemap) ==
    [s EXCEPT !.canvas.mTonemap = tonemap,
              !.tonemapButtons = [k \in 1..NumTonemapButtons |-> (k - 1) = tonemap]]

setMetric(s, metric) ==
    [s EXCEPT !.canvas.mMetric = metric,
              !.metricButtons = [k \in 1..NumMetricButtons |-> (k - 1) = metric]]

(***************************************************************************)
(* ImageViewer: image list and selection                                   *)
(***************************************************************************)
\* imageId(image): 0-based position in mImages, -1 when absent
imageId(s, image) ==
    IF \E k \in 1..Len(s.mImages) : s.mImages[k] = image
    THEN (CHOOSE k \in 1..Len(s.mImages) : s.mImages[k] = image /\ \A j \in 1..(k - 1) : s.mImages[j] # image) - 1
    ELSE -1

\* imageByName(imageName)
imageByName(s, name) ==
    IF \E k \in 1..Len(s.mImages) : imageName(s.mImages[k]) = name
    THEN s.mImages[CHOOSE k \in 1..Len(s.mImages) :
                      imageName(s.mImages[k]) = name /\ \A j \in 1..(k - 1) : imageName(s.mImages[j]) # name]
    ELSE NoImage

max0(n) == IF n < 0 THEN 0 ELSE n

\* visible() of the image button at a 0-based position
visibleAt(s, pos) == s.buttonVisible[s.mImageButtonContainer[pos + 1]]

\* groupName(index)
groupName(s, index) ==
    IF s.mCurrentImage = NoImage THEN <<>> ELSE channelGroups(s.mCurrentImage)[index + 1].name

\* groupId(groupName)
groupId(s, name) ==
    IF s.mCurrentImage = NoImage THEN 0
    ELSE LET groups == channelGroups(s.mCurrentImage)
             requestedBase == extractGroupBaseName(name)
             first(P(_)) == (CHOOSE k \in 1..Len(groups) : P(k) /\ \A j \in 1..(k - 1) : ~P(j)) - 1
             exact(k) == groups[k].name = name
             base(k) == extractGroupBaseName(groups[k].name) = requestedBase
         IN IF \E k \in 1..Len(groups) : exact(k) THEN first(exact)
            ELSE IF Len(requestedBase) > 0 /\ \E k \in 1..Len(groups) : base(k) THEN first(base)
            ELSE -1

selectGroup(s, group) ==
    LET id == max0(groupId(s, group))
        name == groupName(s, id)
    IN [s EXCEPT !.mCurrentGroup = name, !.canvas.mRequestedChannelGroup = name]

\* nextGroup(group, Forward)
nextGroup(s, group) ==
    LET count == Len(s.groupButtonVisible)
        startId == max0(groupId(s, group))
        \* the do-while loop: the first visible button after startId, cyclically, or startId itself
        offsets == {d \in 1..count : s.groupButtonVisible[((startId + d) % count) + 1] \/ d = count}
        d0 == CHOOSE d \in offsets : \A e \in offsets : d <= e
    IN IF count = 0 THEN s.mCurrentGroup ELSE groupName(s, (startId + d0) % count)

\* nthVisibleGroup(0)
firstVisibleGroup(s) ==
    IF \E k \in 1..Len(s.groupButtonVisible) : s.groupButtonVisible[k]
    THEN groupName(s, (CHOOSE k \in 1..Len(s.groupButtonVisible) :
                          s.groupButtonVisible[k] /\ \A j \in 1..(k - 1) : ~s.groupButtonVisible[j]) - 1)
    ELSE s.mCurrentGroup

selectImage(s, image) ==
    IF image = NoImage
    THEN [s EXCEPT !.mCurrentImage = NoImage, !.canvas.mImage = NoImage, !.groupButtonVisible = <<>>]
    ELSE IF ~visibleAt(s, max0(imageId(s, image))) THEN s
    ELSE LET gamma(t) == setGamma(t, storedOr(t.mImageGammas, image, DefaultGamma))
             offset(t) == gamma(setOffset(t, storedOr(t.mImageOffsets, image, 0)))
             exposure(t) == offset(setExposure(t, storedOr(t.mImageExposures, image, 0)))
             group(t) == exposure(selectGroup(t, t.mCurrentGroup))
         IN group([s EXCEPT !.mCurrentImage = image, !.canvas.mImage = image,
                            !.groupButtonVisible = [k \in 1..Len(channelGroups(image)) |-> TRUE],
                            !.mRequiresFilterUpdate = TRUE])

selectReference(s, image) ==
    [s EXCEPT !.mCurrentReference = image, !.canvas.mReference = image]

\* nextImage(image, direction), dir = 1 for Forward and -1 for Backward
nextImage(s, image, dir) ==
    LET count == Len(s.mImages)
        startId == max0(imageId(s, image))
        at(d) == (startId + count * d + dir * d) % count
        offsets == {d \in 1..count : visibleAt(s, at(d)) \/ at(d) = startId}
        d0 == CHOOSE d \in offsets : \A e \in offsets : d <= e
    IN IF count = 0 THEN NoImage ELSE s.mImages[at(d0) + 1]

\* nthVisibleImage(0)
firstVisibleImage(s) ==
    IF \E k \in 1..Len(s.mImages) : visibleAt(s, k - 1)
    THEN s.mImages[CHOOSE k \in 1..Len(s.mImages) : visibleAt(s, k - 1) /\ \A j \in 1..(k - 1) : ~visibleAt(s, j - 1)]
    ELSE NoImage

insertAt(seq, pos, e) == SubSeq(seq, 1, pos) \o <<e>> \o SubSeq(seq, pos + 1, Len(seq))
eraseAt(seq, pos) == SubSeq(seq, 1, pos) \o SubSeq(seq, pos + 2, Len(seq))

insertImage(s, image, index, shallSelect) ==
    LET select(t) == IF (index = 0 /\ Len(t.mImages) = 1) \/ shallSelect THEN selectImage(t, image) ELSE t
    IN select([s EXCEPT !.mDraggedImageButtonId =
                            IF s.mDragType = "ImageButtonDrag" /\ index <= s.mDraggedImageButtonId
                            THEN s.mDraggedImageButtonId + 1 ELSE s.mDraggedImageButtonId,
                        !.mImageButtonContainer = insertAt(s.mImageButtonContainer, index, image),
                        !.mImages = insertAt(s.mImages, index, image),
                        !.buttonVisible = mapSet(s.buttonVisible, {image}, TRUE),
                        !.mRequiresFilterUpdate = TRUE])

addImage(s, image, shallSelect) == insertImage(s, image, Len(s.mImages), shallSelect)

removeImage(s, image) ==
    LET id == imageId(s, image)
        pick(forward) == IF imageId(s, forward) < id THEN nextImage(s, image, -1) ELSE forward
        noSelf(candidate) == IF candidate = image THEN NoImage ELSE candidate
        reference(t, nextCandidate) ==
            IF t.mCurrentReference = image THEN selectReference(t, nextCandidate) ELSE t
        current(t, nextCandidate) ==
            reference(IF t.mCurrentImage = image THEN selectImage(t, nextCandidate) ELSE t, nextCandidate)
        erased(t) == IF Len(t.mImages) = 0 THEN selectReference(selectImage(t, NoImage), NoImage)
                     ELSE current(t, noSelf(pick(nextImage(s, image, 1))))
        \* the image button that is dragged is removed, or one before it
        drag(t) ==
            IF t.mDragType # "ImageButtonDrag" THEN t
            ELSE IF id = t.mDraggedImageButtonId THEN [t EXCEPT !.mDragType = "None"]
            ELSE IF id < t.mDraggedImageButtonId
            THEN [t EXCEPT !.mDraggedImageButtonId = t.mDraggedImageButtonId - 1]
            ELSE t
    IN IF id = -1 THEN s
       ELSE erased([drag(s) EXCEPT !.mImages = eraseAt(s.mImages, id),
                                   !.mImageButtonContainer = eraseAt(s.mImageButtonContainer, id),
                                   !.buttonVisible = [i \in (DOMAIN s.buttonVisible) \ {s.mImageButtonContainer[id + 1]}
                                                         |-> s.buttonVisible[i]]])

\* the loop of removeAllImages from the last position i down to 0
RECURSIVE removeVisible(_, _)
removeVisible(s, i) ==
    IF i < 0 THEN s
    ELSE removeVisible(IF visibleAt(s, i)
                       THEN [s EXCEPT !.mImages = eraseAt(s.mImages, i),
                                      !.mImageButtonContainer = eraseAt(s.mImageButtonContainer, i),
                                      !.buttonVisible = [k \in (DOMAIN s.buttonVisible) \ {s.mImageButtonContainer[i + 1]}
                                                            |-> s.buttonVisible[k]]]
                       ELSE s, i - 1)

removeAllImages(s) ==
    IF Len(s.mImages) = 0 THEN s
    ELSE selectReference(selectImage(removeVisible(s, Len(s.mImages) - 1), NoImage), NoImage)

\* moveImageInList(oldIndex, newIndex) with both below mImages.size()
moveImageInList(s, oldIndex, newIndex) ==
    IF oldIndex = newIndex THEN s
    ELSE [s EXCEPT !.mImageButtonContainer =
                       insertAt(eraseAt(s.mImageButtonContainer, oldIndex), newIndex,
                                s.mImageButtonContainer[oldIndex + 1]),
                   !.mImages = insertAt(eraseAt(s.mImages, oldIndex), newIndex, s.mImages[oldIndex + 1])]

\* replaceImage that appends the replacement to the list
replaceImageAppending(s, image, replacement, shallSelect) ==
    LET currentId == imageId(s, s.mCurrentImage)
        id == imageId(s, image)
    IN IF id = -1 THEN addImage(s, replacement, shallSelect)
       ELSE addImage(removeImage(s, image), replacement, shallSelect \/ currentId = id)

replaceImage(s, image, replacement, shallSelect) ==
    LET currentId == imageId(s, s.mCurrentImage)
        id == imageId(s, image)
        referenceId == imageId(s, s.mCurrentReference)
        reference(t) == IF referenceId # -1 THEN selectReference(t, t.mImages[referenceId + 1]) ELSE t
    IN IF id = -1 THEN addImage(s, replacement, shallSelect)
       ELSE reference(insertImage(removeImage(s, image), replacement, id, shallSelect \/ currentId = id))

(***************************************************************************)
(* ImageViewer: filter                                                     *)
(***************************************************************************)
\* the image part and the group part of the filter, split at the last ':'
imagePart(filter) == IF rfind(filter, ":") # 0 THEN SubSeq(filter, 1, rfind(filter, ":") - 1) ELSE filter
groupPart(filter) == IF rfind(filter, ":") # 0 THEN SubSeq(filter, rfind(filter, ":") + 1, Len(filter)) ELSE <<>>

\* matchesFuzzyOrRegex(text, filter): the empty filter matches every text, any other filter
\* the texts that contain it
matchesFuzzyOrRegex(text, filter) ==
    \E k \in 0..(Len(text) - Len(filter)) : SubSeq(text, k + 1, k + Len(filter)) = filter

doesImageMatch(img, filter) ==
    /\ matchesFuzzyOrRegex(imageName(img), imagePart(filter))
    /\ \E k \in 1..Len(channelGroups(img)) : matchesFuzzyOrRegex(channelGroups(img)[k].name, groupPart(filter))

updateFilter(s) ==
    LET currentImageMatchesFilter(t) ==
            \E k \in 1..Len(t.mImages) : visibleAt(t, k - 1) /\ t.mImages[k] = t.mCurrentImage
        regroup(t) == IF ~matchesFuzzyOrRegex(t.mCurrentGroup, groupPart(t.mFilter))
                      THEN selectGroup(t, firstVisibleGroup(t)) ELSE t
        groups(t) == IF t.mCurrentImage = NoImage THEN t
                     ELSE regroup([t EXCEPT !.groupButtonVisible =
                                      [k \in 1..Len(t.groupButtonVisible) |->
                                          matchesFuzzyOrRegex(groupName(t, k - 1), groupPart(t.mFilter))]])
        reference(t) == groups(IF t.mCurrentReference # NoImage
                                  /\ ~matchesFuzzyOrRegex(imageName(t.mCurrentReference), imagePart(t.mFilter))
                               THEN selectReference(t, NoImage) ELSE t)
        current(t) == reference(IF ~currentImageMatchesFilter(t) THEN selectImage(t, firstVisibleImage(t)) ELSE t)
    IN current([s EXCEPT !.buttonVisible = [i \in DOMAIN s.buttonVisible |-> doesImageMatch(i, s.mFilter)]])

(***************************************************************************)
(* Lazy<shared_ptr<CanvasStatistics>>                                      *)
(***************************************************************************)
\* computeAsync(): enqueues the computation unless it was enqueued or computed before
computeAsync(lazy) ==
    IF lazy.started THEN lazy ELSE [lazy EXCEPT !.started = TRUE, !.starts = lazy.starts + 1]

isReady(lazy) == lazy.ready

\* now - becameReadyAt() > 200ms; becameReadyAt() of a handle that is not ready is now
readyForOver200ms(lazy) == isReady(lazy) /\ lazy.old

(***************************************************************************)
(* ImageCanvas::canvasStatistics                                           *)
(***************************************************************************)
dash == <<"-">>

\* the components the key is built from
keyTuple(s) ==
    [id |-> s.imageIds[s.canvas.mImage],
     channels |-> join(channelsInGroup(s.canvas.mImage, s.canvas.mRequestedChannelGroup), <<",">>),
     reference |-> IF s.canvas.mReference # NoImage THEN s.imageIds[s.canvas.mReference] ELSE -1,
     metric |-> s.canvas.mMetric,
     histogramSpace |-> s.canvas.mHistogramSpace]

\* tfm::format("%d-%s-%d-%d-%d", ...) with a reference, tfm::format("%d-%s-%d", ...) without
statisticsKey(s) ==
    LET format(t) ==
            IF s.canvas.mReference # NoImage
            THEN FormatInt(t.id) \o dash \o t.channels \o dash \o FormatInt(t.reference) \o dash
                     \o FormatInt(t.metric) \o dash \o FormatInt(t.histogramSpace)
            ELSE FormatInt(t.id) \o dash \o t.channels \o dash \o FormatInt(t.histogramSpace)
    IN format(keyTuple(s))

\* a find() that never finds the key
findKeyNever(cache, key) == 0

\* a find() that returns the oldest entry whatever the key
findKeyAny(cache, key) == IF Len(cache) > 0 THEN 1 ELSE 0

\* mMeanValues.find(key): the position of the entry, 0 for end()
findKey(cache, key) ==
    IF \E k \in 1..Len(cache) : cache[k].key = key
    THEN CHOOSE k \in 1..Len(cache) : cache[k].key = key /\ \A j \in 1..(k - 1) : cache[j].key # key
    ELSE 0

\* a cache that holds one entry: a miss replaces what is there
canvasStatisticsEvicting(s) ==
    LET lazy(key, tuple) ==
            [key |-> key, image |-> s.canvas.mImage, reference |-> s.canvas.mReference,
             requestedChannelGroup |-> s.canvas.mRequestedChannelGroup,
             metric |-> s.canvas.mMetric, histogramSpace |-> s.canvas.mHistogramSpace,
             started |-> FALSE, ready |-> FALSE, old |-> FALSE, starts |-> 0, tuple |-> tuple]
        result(key, tuple, cache, handle) ==
            [s |-> [s EXCEPT !.mMeanValues = cache,
                             !.callLog = s.callLog \cup {[tuple |-> tuple, key |-> key, handle |-> handle]}],
             handle |-> handle]
        lookup(key, tuple, found) ==
            IF found # 0 THEN result(key, tuple, s.mMeanValues, found)
            ELSE result(key, tuple, <<computeAsync(lazy(key, tuple))>>, 1)
        request(key) == lookup(key, keyTuple(s), findKey(s.mMeanValues, key))
    IN IF s.canvas.mImage = NoImage THEN [s |-> s, handle |-> 0] ELSE request(statisticsKey(s))

\* returns the state after the call and the handle (a position in mMeanValues, 0 for nullptr)
canvasStatistics(s) ==
    LET lazy(key, tuple) ==
            [key |-> key, image |-> s.canvas.mImage, reference |-> s.canvas.mReference,
             requestedChannelGroup |-> s.canvas.mRequestedChannelGroup,
             metric |-> s.canvas.mMetric, histogramSpace |-> s.canvas.mHistogramSpace,
             started |-> FALSE, ready |-> FALSE, old |-> FALSE, starts |-> 0, tuple |-> tuple]
        result(key, tuple, cache, handle) ==
            [s |-> [s EXCEPT !.mMeanValues = cache,
                             !.callLog = s.callLog \cup {[tuple |-> tuple, key |-> key, handle |-> handle]}],
             handle |-> handle]
        lookup(key, tuple, found) ==
            IF found # 0 THEN result(key, tuple, s.mMeanValues, found)
            ELSE result(key, tuple, Append(s.mMeanValues, computeAsync(lazy(key, tuple))), Len(s.mMeanValues) + 1)
        request(key) == lookup(key, keyTuple(s), findKey(s.mMeanValues, key))
    IN IF s.canvas.mImage = NoImage THEN [s |-> s, handle |-> 0] ELSE request(statisticsKey(s))

(***************************************************************************)
(* ImageViewer: histogram                                                  *)
(***************************************************************************)
Log == 0
Linear == 1

\* computeCanvasStatistics leaves CanvasStatistics::histogramLinear empty
hasLinearHistogram == FALSE

\* lazy->get() blocks until the result is there
applyHistogramStatistics(s, handle) ==
    LET useLinear == s.mHistogramScale = Linear /\ hasLinearHistogram
    IN IF ~isReady(s.mMeanValues[handle]) THEN [s EXCEPT !.uiWaits = handle]
       ELSE [s EXCEPT !.mHistogram = [handle |-> handle, label |-> IF useLinear THEN Linear ELSE Log]]

\* an update that reads the result without asking isReady()
updateHistogramUnchecked(s) ==
    LET update(r) ==
            IF r.handle # 0 THEN applyHistogramStatistics(r.s, r.handle)
            ELSE [r.s EXCEPT !.mHistogram = [handle |-> 0, label |-> r.s.mHistogramScale]]
    IN update(canvasStatistics(s))

\* the "Update histogram" part of draw_contents
updateHistogram(s) ==
    LET update(r) ==
            IF r.handle # 0
            THEN IF isReady(r.s.mMeanValues[r.handle]) THEN applyHistogramStatistics(r.s, r.handle) ELSE r.s
            ELSE [r.s EXCEPT !.mHistogram = [handle |-> 0, label |-> r.s.mHistogramScale]]
    IN update(canvasStatistics(s))

setHistogramScale(s, scale) ==
    LET update(r) ==
            IF r.handle # 0 /\ isReady(r.s.mMeanValues[r.handle])
            THEN applyHistogramStatistics(r.s, r.handle)
            ELSE [r.s EXCEPT !.mHistogram.label = scale]
    IN update(canvasStatistics([s EXCEPT !.mHistogramScale = scale]))

(***************************************************************************)
(* ImageViewer::updateImage and the ids of images                          *)
(***************************************************************************)
\* Image::bumpId()
bumpId(s, image) ==
    [s EXCEPT !.imageIds[image] = s.sId, !.sId = s.sId + 1]

updateImage(s, name, shallSelect) ==
    LET bump(t, image) ==
            IF image # t.mCurrentImage /\ image # t.mCurrentReference THEN bumpId(t, image)
            ELSE [t EXCEPT !.mToBump = t.mToBump \cup {image}]
        update(image) == IF image = NoImage THEN s
                         ELSE bump(IF shallSelect THEN selectImage(s, image) ELSE s, image)
    IN update(imageByName(s, name))

(***************************************************************************)
(* The UI task queue                                                       *)
(***************************************************************************)
\* scheduleToUiThread(fun): the closure is queued; `outcome` is what saveImage() will meet
scheduleToUiThread(s, kind, outcome) ==
    [s EXCEPT !.mTaskQueue = Append(s.mTaskQueue, [id |-> Len(s.scheduled) + 1, kind |-> kind, outcome |-> outcome]),
              !.scheduled = Append(s.scheduled, Len(s.scheduled) + 1)]

showErrorDialog(s) == [s EXCEPT !.errorDialogs = s.errorDialogs + 1]

\* the closure that joins the dialog thread and resets the handle
cleanupTask(s) ==
    LET reset(t) == [t EXCEPT !.mFileDialogThread = NoThread]
    IN reset(IF s.mFileDialogThread # NoThread /\ s.dialogThreads[s.mFileDialogThread].state # "joined"
             THEN [s EXCEPT !.dialogThreads[s.mFileDialogThread].state = "joined"] ELSE s)

\* ImageCanvas::saveImage inside the closure's try block: an ImageSaveError of a saver is caught
\* and shown; the invalid_argument thrown when the file cannot be opened or no saver takes the
\* path is no ImageSaveError and leaves the closure
saveTask(s, outcome) ==
    IF s.canvas.mImage = NoImage THEN [s |-> s, thrown |-> FALSE]
    ELSE IF outcome = "saverError" THEN [s |-> showErrorDialog(s), thrown |-> FALSE]
    ELSE IF outcome = "cannotOpen" THEN [s |-> s, thrown |-> TRUE]
    ELSE [s |-> s, thrown |-> FALSE]

\* (*task)(): the state after the closure and whether an exception left it
runTask(s, task) ==
    LET run(t) == IF task.kind = "cleanup" THEN [s |-> cleanupTask(t), thrown |-> FALSE]
                  ELSE IF task.kind = "save" THEN saveTask(t, task.outcome)
                  ELSE [s |-> showErrorDialog(t), thrown |-> FALSE]
    IN run([s EXCEPT !.executed = Append(s.executed, [id |-> task.id, loaderLeft |-> Len(s.loaderQueue)])])

\* the closure would leave by an exception
throws(s, task) == task.kind = "save" /\ task.outcome = "cannotOpen"

\* thread::join() of the cleanup closure waits until the thread function has returned
joinWaits(s, task) ==
    /\ task.kind = "cleanup"
    /\ s.mFileDialogThread # NoThread
    /\ s.dialogThreads[s.mFileDialogThread].state \in {"dialog", "returned"}

(***************************************************************************)
(* ImageViewer::draw_contents                                              *)
(***************************************************************************)
\* while (auto addition = mImagesLoader->tryPop())
RECURSIVE popLoader(_)
popLoader(s) ==
    LET add(t, addition) ==
            IF addition.toReplace # NoImage
            THEN replaceImage(t, addition.toReplace, addition.image, addition.shallSelect)
            ELSE addImage(t, addition.image, addition.shallSelect)
    IN IF Len(s.loaderQueue) = 0 THEN s
       ELSE popLoader(add([s EXCEPT !.loaderQueue = Tail(s.loaderQueue)], Head(s.loaderQueue)))

\* while (auto task = mTaskQueue.tryPop())
RECURSIVE runTasks(_)
runTasks(s) ==
    LET next(r) == IF r.thrown THEN r ELSE runTasks(r.s)
    IN IF Len(s.mTaskQueue) = 0 THEN [s |-> s, thrown |-> FALSE]
       ELSE next(runTask([s EXCEPT !.mTaskQueue = Tail(s.mTaskQueue)], Head(s.mTaskQueue)))

\* the loop over mToBump, visited in `order`.  Calling becameReadyAt() through the null handle
\* that canvasStatistics() returns without an image is undefined: the process ends ("crash") or
\* the comparison reads garbage and goes either way ("bump", "skip").
RECURSIVE bumpLoop(_, _, _)
bumpLoop(s, order, ub) ==
    LET bump(t, image) == bumpLoop([bumpId(t, image) EXCEPT !.mToBump = t.mToBump \ {image}], Tail(order), ub)
        shown(r, image) ==
            IF r.handle = 0
            THEN IF ub = "crash" THEN [s EXCEPT !.crashed = TRUE]
                 ELSE IF ub = "bump" THEN bump(s, image)
                 ELSE bumpLoop(s, Tail(order), ub)
            ELSE IF readyForOver200ms(r.s.mMeanValues[r.handle]) THEN bump(r.s, image)
            ELSE bumpLoop(r.s, Tail(order), ub)
        visit(image) == IF image # s.mCurrentImage /\ image # s.mCurrentReference THEN bump(s, image)
                        ELSE shown(canvasStatistics(s), image)
    IN IF Len(order) = 0 THEN s ELSE visit(Head(order))

drawContents(s, order, ub, uncaught) ==
    LET filter(t) == IF t.mRequiresFilterUpdate
                     THEN [updateFilter(t) EXCEPT !.mRequiresFilterUpdate = FALSE] ELSE t
        histogram(t) == IF t.crashed THEN t ELSE updateHistogram(filter(t))
        \* an exception of a closure leaves draw_contents: the caller ends the program or goes on
        tasks(r) == IF ~r.thrown THEN histogram(bumpLoop(r.s, order, ub))
                    ELSE IF uncaught = "terminate" THEN [r.s EXCEPT !.crashed = TRUE]
                    ELSE r.s
    IN tasks(runTasks(popLoader(s)))

\* the orders in which a std::set of pointers can be visited
Orders(set) == {seq \in [1..Cardinality(set) -> set] : \A a, b \in 1..Cardinality(set) : a # b => seq[a] # seq[b]}

\* what the read through the null handle can do; nothing is read while mToBump is empty
UBOutcomes(s) == IF s.mToBump = {} THEN {"skip"} ELSE {"crash", "bump", "skip"}

\* what the caller of draw_contents can do with an exception
UncaughtOutcomes(s) ==
    IF \E k \in 1..Len(s.mTaskQueue) : throws(s, s.mTaskQueue[k]) THEN {"terminate", "continue"} ELSE {"continue"}

(***************************************************************************)
(* ImageViewer::openImageDialog and saveImageDialog                        *)
(***************************************************************************)
OpenOutcomes == {"cancel", "paths", "error"}
SaveOutcomes == {"cancel", "ok", "saverError", "cannotOpen", "error"}

\* the ScopeGuard of runDialog: the cleanup closure is scheduled when runDialog is left
threadGuard(s) == scheduleToUiThread(s, "cleanup", "ok")

\* runDialog of openImageDialog once file_dialog has returned
runOpenDialog(s, outcome) ==
    threadGuard(IF outcome = "paths"
                THEN [s EXCEPT !.loaderRequests = Append(s.loaderRequests, [shallSelect |-> TRUE, toReplace |-> NoImage])]
                ELSE IF outcome = "error" THEN scheduleToUiThread(s, "error", "ok")
                ELSE s)

\* runDialog of saveImageDialog once file_dialog has returned
runSaveDialog(s, outcome) ==
    threadGuard(IF outcome = "cancel" THEN s
                ELSE IF outcome = "error" THEN scheduleToUiThread(s, "error", "ok")
                ELSE scheduleToUiThread(s, "save", outcome))

\* mFileDialogThread = make_unique<thread>(runDialog)
startDialogThread(s, kind) ==
    [s EXCEPT !.dialogThreads = Append(s.dialogThreads, [state |-> "dialog", kind |-> kind]),
              !.mFileDialogThread = Len(s.dialogThreads) + 1]

\* the "File dialog already running." warning
refuseDialog(s) == [s EXCEPT !.refused = s.refused + 1]

\* an openImageDialog that does not look at mFileDialogThread
openImageDialogUnguarded(s, outcome) ==
    IF s.threadedDialogs THEN startDialogThread(s, "open") ELSE runOpenDialog(s, outcome)

openImageDialog(s, outcome) ==
    IF s.mFileDialogThread # NoThread THEN refuseDialog(s)
    ELSE IF s.threadedDialogs THEN startDialogThread(s, "open")
    ELSE runOpenDialog(s, outcome)

\* a saveImageDialog that does not look at mCurrentImage
saveImageDialogUnguarded(s, outcome) ==
    IF s.mFileDialogThread # NoThread THEN refuseDialog(s)
    ELSE IF s.threadedDialogs THEN startDialogThread(s, "save")
    ELSE runSaveDialog(s, outcome)

saveImageDialog(s, outcome) ==
    IF s.mCurrentImage = NoImage THEN s
    ELSE IF s.mFileDialogThread # NoThread THEN refuseDialog(s)
    ELSE IF s.threadedDialogs THEN startDialogThread(s, "save")
    ELSE runSaveDialog(s, outcome)

(***************************************************************************)
(* The crop window: boxes and the text of the crop text boxes              *)
(***************************************************************************)
\* std::nullopt of std::optional<Box2i>
NoCrop == [none |-> TRUE]

\* std::nullopt of std::optional<Vector2i>
NoPixel == [none |-> TRUE]

\* Box2i(Vector2i(minX, minY), Vector2i(maxX, maxY)): the two corners as given
Box2i(minX, minY, maxX, maxY) == [min |-> <<minX, minY>>, max |-> <<maxX, maxY>>]

\* the six text boxes of the crop panel
CropBoxes == {"minX", "minY", "maxX", "maxY", "width", "height"}

\* std::to_string(int)
to_string(n) == IF n < 0 THEN <<"-">> \o FormatInt(-n) ELSE FormatInt(n)

(***************************************************************************)
(* Initial state: the viewer after its constructor                         *)
(***************************************************************************)
InitCommon ==
    /\ mImages = <<>> /\ buttonVisible = <<>> /\ groupButtonVisible = <<>>
    /\ mImageButtonContainer = <<>>
    \* the member has no initializer; it is read only while mDragType is ImageButtonDrag
    /\ mDraggedImageButtonId = 0
    /\ mCurrentImage = NoImage /\ mCurrentReference = NoImage /\ mCurrentGroup = <<>>
    /\ mFilter = <<>> /\ mRequiresFilterUpdate = TRUE
    /\ mToBump = {} /\ mTaskQueue = <<>> /\ mFileDialogThread = NoThread
    /\ mSyncTonemapping = TRUE
    /\ mImageExposures = <<>> /\ mImageOffsets = <<>> /\ mImageGammas = <<>>
    /\ tonemapButtons = [k \in 1..NumTonemapButtons |-> k = 1]
    /\ metricButtons = [k \in 1..NumMetricButtons |-> (k - 1) = AbsoluteError]
    /\ mHistogramScale = Log /\ mHistogram = [handle |-> 0, label |-> Log]
    /\ errorDialogs = 0
    /\ canvas = [mImage |-> NoImage, mReference |-> NoImage, mRequestedChannelGroup |-> <<>>,
                 mMetric |-> AbsoluteError, mTonemap |-> 0, mHistogramSpace |-> Log,
                 mExposure |-> 0, mOffset |-> 0, mGamma |-> DefaultGamma, mCrop |-> NoCrop,
                 mTransform |-> Identity]
    /\ mMeanValues = <<>>
    /\ imageIds = <<>> /\ sId = 0
    /\ loaderRequests = <<>> /\ loaderQueue = <<>>
    /\ dialogThreads = <<>>
    /\ crashed = FALSE /\ uiWaits = 0
    /\ ops = 0 /\ refused = 0 /\ callLog = {}
    /\ scheduled = <<>> /\ executed = <<>>
    /\ mCurrCrop = Box2i(0, 0, 0, 0)
    /\ cropText = [b \in CropBoxes |-> to_string(0)]
    /\ mDragType = "None" /\ mDraggingStartPosition = <<0, 0>>
    /\ cropList = <<>>
    /\ mFoundPixels = <<>> /\ mCurrentFoundPixelIdx = -1
    /\ mPixelLocatorPrimaryHighlight = NoPixel /\ findNextEnabled = FALSE
    /\ statistics = [phase |-> "none"]

\* no pure function is being called
NoCall == args = [fn |-> "none"] /\ returned = [kind |-> "none"]

Init == InitCommon /\ threadedDialogs = TRUE /\ NoCall

(***************************************************************************)
(* Operations of the user and of the environment                           *)
(***************************************************************************)
Alive == ~crashed /\ uiWaits = 0
MayOperate == Alive /\ ops < MaxOps

\* drop_event with one file: the load is enqueued in the background loader
DropEvent ==
    /\ Alive
    /\ Cardinality(DOMAIN imageIds) + Len(loaderRequests) < MaxImages
    /\ Becomes([St EXCEPT !.loaderRequests = Append(loaderRequests, [shallSelect |-> TRUE, toReplace |-> NoImage])])

\* reloadImage(mCurrentImage)
ReloadImage ==
    /\ MayOperate
    /\ mCurrentImage # NoImage
    /\ Becomes([BeginOp(St) EXCEPT !.loaderRequests =
                   Append(loaderRequests, [shallSelect |-> FALSE, toReplace |-> mCurrentImage])])

\* the background loader finishes a load: a new Image, or nothing when the load fails
LoaderFinish ==
    /\ Alive
    /\ Len(loaderRequests) > 0
    /\ \E ok \in BOOLEAN :
          LET request == Head(loaderRequests)
              image == Cardinality(DOMAIN imageIds) + 1
              s1 == [St EXCEPT !.loaderRequests = Tail(loaderRequests)]
          IN /\ ok => image <= MaxImages
             /\ Becomes(IF ok
                        THEN [s1 EXCEPT !.imageIds = mapSet(imageIds, {image}, sId), !.sId = sId + 1,
                                        !.loaderQueue = Append(loaderQueue,
                                            [image |-> image, shallSelect |-> request.shallSelect,
                                             toReplace |-> request.toReplace])]
                        ELSE s1)

\* click on an image button
ClickImageButton ==
    /\ MayOperate
    /\ \E image \in Range(mImages) :
          /\ buttonVisible[image]
          /\ Becomes(selectImage(BeginOp(St), image))

\* right click on an image button: toggles the reference
ClickReference ==
    /\ MayOperate
    /\ \E image \in Range(mImages) :
          /\ buttonVisible[image]
          /\ Becomes(selectReference(BeginOp(St), IF mCurrentReference = image THEN NoImage ELSE image))

\* click on a group button
ClickGroupButton ==
    /\ MayOperate
    /\ \E k \in 1..Len(groupButtonVisible) :
          /\ groupButtonVisible[k]
          /\ Becomes(selectGroup(BeginOp(St), groupName(St, k - 1)))

\* Ctrl+W
RemoveCurrentImage ==
    /\ MayOperate
    /\ mCurrentImage # NoImage
    /\ Becomes(removeImage(BeginOp(St), mCurrentImage))

Filters == { <<>>, <<":", "z">>, <<"1">> }

\* text typed into the filter box
SetFilter ==
    /\ MayOperate
    /\ \E filter \in Filters :
          /\ filter # mFilter
          /\ Becomes([BeginOp(St) EXCEPT !.mFilter = filter, !.mRequiresFilterUpdate = TRUE])

\* updateImage(name, shallSelect, ...) of a listed image
UpdateImage ==
    /\ MayOperate
    /\ \E image \in Range(mImages), shallSelect \in BOOLEAN :
          Becomes(updateImage(BeginOp(St), imageName(image), shallSelect))

\* click on a metric button; the buttons are enabled while a reference is selected
ClickMetricButton ==
    /\ MayOperate
    /\ mCurrentReference # NoImage
    /\ \E metric \in 0..(NumMetricButtons - 1) :
          /\ metric # canvas.mMetric
          /\ Becomes(setMetric(BeginOp(St), metric))

\* Ctrl+Right / Ctrl+Left
KeyCycleMetric ==
    /\ MayOperate
    /\ mCurrentReference # NoImage
    /\ \E dir \in {1, -1} :
          Becomes(setMetric(BeginOp(St), (canvas.mMetric + dir + NumMetrics) % NumMetrics))

\* click on a tonemap button
ClickTonemapButton ==
    /\ MayOperate
    /\ \E tonemap \in 0..(NumTonemapButtons - 1) :
          /\ tonemap # canvas.mTonemap
          /\ Becomes(setTonemap(BeginOp(St), tonemap))

\* Shift+Right / Shift+Left
KeyCycleTonemap ==
    /\ MayOperate
    /\ \E dir \in {1, -1} :
          Becomes(setTonemap(BeginOp(St), (canvas.mTonemap + dir + NumTonemaps) % NumTonemaps))

\* click on the Log / Linear button of the histogram
ClickHistogramScale ==
    /\ MayOperate
    /\ \E scale \in {Log, Linear} :
          /\ scale # mHistogramScale
          /\ Becomes(setHistogramScale(BeginOp(St), scale))

\* slider positions, in thousandths
SliderValues == {125, 1250}

\* the exposure, offset and gamma sliders
SetExposure(v) == MayOperate /\ Becomes(setExposure(BeginOp(St), v))
SetOffset(v) == MayOperate /\ Becomes(setOffset(BeginOp(St), v))
SetGamma(v) == MayOperate /\ Becomes(setGamma(BeginOp(St), v))
MoveSlider == \E v \in SliderValues : SetExposure(v) \/ SetOffset(v) \/ SetGamma(v)

\* click on the Sync checkbox
ToggleSync == MayOperate /\ Becomes(syncTonemappingCallback(BeginOp(St), ~mSyncTonemapping))

\* the reset button
ResetImage == MayOperate /\ Becomes(resetImage(BeginOp(St)))

(***************************************************************************)
(* Steps of the program itself                                             *)
(***************************************************************************)
\* the first cleanup closure of the queue would wait in join()
drawWaits(s) ==
    \E k \in 1..Len(s.mTaskQueue) :
        /\ joinWaits(s, s.mTaskQueue[k])
        /\ \A j \in 1..(k - 1) : s.mTaskQueue[j].kind # "cleanup" /\ ~throws(s, s.mTaskQueue[j])

\* one frame
DrawContents ==
    /\ Alive
    /\ ~drawWaits(St)
    /\ \E order \in Orders(mToBump), ub \in UBOutcomes(St), uncaught \in UncaughtOutcomes(St) :
          Becomes(drawContents(St, order, ub, uncaught))

\* a worker of the thread pool finishes the computation of handle h
WorkerFinishes(h) ==
    /\ ~crashed
    /\ mMeanValues[h].started /\ ~mMeanValues[h].ready
    /\ Becomes([St EXCEPT !.mMeanValues[h].ready = TRUE, !.uiWaits = IF uiWaits = h THEN 0 ELSE uiWaits])

WorkerFinish == \E h \in 1..Len(mMeanValues) : WorkerFinishes(h)

\* more than 200 ms pass
Tick ==
    /\ Alive
    /\ \E h \in 1..Len(mMeanValues) : mMeanValues[h].ready /\ ~mMeanValues[h].old
    /\ Becomes([St EXCEPT !.mMeanValues =
                   [h \in 1..Len(mMeanValues) |->
                       IF mMeanValues[h].ready THEN [mMeanValues[h] EXCEPT !.old = TRUE] ELSE mMeanValues[h]]])

\* the dialogs below may run on a thread of their own or, on other builds, on the UI thread
InitDialog == InitCommon /\ threadedDialogs \in BOOLEAN /\ NoCall

\* the paths an open dialog returns are loaded while the pool has images left
FitsPool(outcome) == outcome = "paths" => Cardinality(DOMAIN imageIds) + Len(loaderRequests) < MaxImages

\* Ctrl+O or the open button
OpenImageDialog ==
    /\ MayOperate
    /\ mFileDialogThread = NoThread /\ threadedDialogs => Len(dialogThreads) < MaxDialogs
    /\ \E outcome \in (IF threadedDialogs \/ mFileDialogThread # NoThread THEN {"cancel"} ELSE OpenOutcomes) :
          /\ FitsPool(outcome)
          /\ Becomes(openImageDialog(BeginOp(St), outcome))

\* Ctrl+S or the save button
SaveImageDialog ==
    /\ MayOperate
    /\ mFileDialogThread = NoThread /\ threadedDialogs => Len(dialogThreads) < MaxDialogs
    /\ \E outcome \in (IF threadedDialogs \/ mFileDialogThread # NoThread \/ mCurrentImage = NoImage
                       THEN {"cancel"} ELSE SaveOutcomes) :
          Becomes(saveImageDialog(BeginOp(St), outcome))

\* file_dialog returns on the dialog thread and runDialog runs to its end
DialogReturn ==
    /\ ~crashed
    /\ \E t \in 1..Len(dialogThreads) :
          /\ dialogThreads[t].state = "dialog"
          /\ \E outcome \in (IF dialogThreads[t].kind = "open" THEN OpenOutcomes ELSE SaveOutcomes) :
                /\ FitsPool(outcome)
                /\ Becomes(IF dialogThreads[t].kind = "open"
                           THEN runOpenDialog([St EXCEPT !.dialogThreads[t].state = "returned"], outcome)
                           ELSE runSaveDialog([St EXCEPT !.dialogThreads[t].state = "returned"], outcome))

\* the thread function of a dialog thread has returned
ThreadExit ==
    /\ ~crashed
    /\ \E t \in 1..Len(dialogThreads) :
          /\ dialogThreads[t].state = "returned"
          /\ Becomes([St EXCEPT !.dialogThreads[t].state = "exited"])

(***************************************************************************)
(* Specification of the file dialogs and the UI task queue                 *)
(***************************************************************************)
NextDialog ==
    \/ DropEvent \/ LoaderFinish \/ OpenImageDialog \/ SaveImageDialog
    \/ DialogReturn \/ ThreadExit \/ DrawContents \/ WorkerFinish

SpecDialog == InitDialog /\ [][NextDialog]_vars

(***************************************************************************)
(* Specification of the tonemapping controls                               *)
(***************************************************************************)
NextTone ==
    \/ DropEvent \/ LoaderFinish \/ ClickImageButton \/ ClickReference
    \/ MoveSlider \/ ToggleSync \/ ResetImage
    \/ ClickTonemapButton \/ KeyCycleTonemap \/ ClickMetricButton \/ KeyCycleMetric
    \/ DrawContents \/ WorkerFinish

SpecTone == Init /\ [][NextTone]_vars

(***************************************************************************)
(* Specification of the statistics cache                                   *)
(***************************************************************************)
Next ==
    \/ DropEvent \/ LoaderFinish \/ ClickImageButton \/ ClickReference \/ ClickGroupButton
    \/ KeyCycleMetric \/ ClickHistogramScale \/ ReloadImage
    \/ DrawContents \/ WorkerFinish

Spec == Init /\ [][Next]_vars

(***************************************************************************)
(* Specification of pixel updates: updateImage, the filter and mToBump     *)
(***************************************************************************)
NextBump ==
    \/ DropEvent \/ LoaderFinish \/ ClickReference \/ SetFilter \/ UpdateImage
    \/ RemoveCurrentImage \/ DrawContents \/ WorkerFinish \/ Tick

SpecBump == Init /\ [][NextBump]_vars

(***************************************************************************)
(* Properties of the statistics cache                                      *)
(***************************************************************************)
Handles == 1..Len(mMeanValues)

\* C1: two canvasStatistics() calls made while (image id, joined channel names, reference id,
\* metric, histogram space) are equal return the same handle, and the computation of every
\* key is started exactly once.
C1_SameKeySameHandle ==
    /\ \A c1, c2 \in callLog : c1.tuple = c2.tuple => c1.handle = c2.handle
    /\ \A h \in Handles : mMeanValues[h].starts = 1
    /\ \A h1, h2 \in Handles : mMeanValues[h1].key = mMeanValues[h2].key => h1 = h2

\* a handle created by one call was returned again by a later one (its result is shown),
\* after changes of the key had created further handles
C1_Witness ==
    /\ mHistogram.handle # 0
    /\ Len(mMeanValues) >= 2
    /\ \E c \in callLog : c.handle = mHistogram.handle /\ c.tuple = mMeanValues[c.handle].tuple

CurrentKey == statisticsKey(St)
CurrentHandle == IF canvas.mImage = NoImage THEN 0 ELSE findKey(mMeanValues, CurrentKey)

\* the same after a step
CurrentKeyNext == statisticsKey([canvas |-> canvas', imageIds |-> imageIds'])
CurrentHandleNext == IF canvas'.mImage = NoImage THEN 0 ELSE findKey(mMeanValues', CurrentKeyNext)

\* C4: the histogram only ever shows the result of a handle that is ready; a step that ends
\* with the handle of the current key not ready leaves the histogram's content as it was;
\* and the UI thread is never blocked in get().
C4_OnlyReadyResults ==
    /\ [](mHistogram.handle # 0 => isReady(mMeanValues[mHistogram.handle]))
    /\ [][(CurrentHandleNext # 0 /\ ~isReady(mMeanValues'[CurrentHandleNext]))
            => mHistogram'.handle = mHistogram.handle]_vars
    /\ [](uiWaits = 0)

\* the handle of the current key is still computing and the histogram shows an earlier result
C4_Witness ==
    /\ CurrentHandle # 0
    /\ ~isReady(mMeanValues[CurrentHandle])
    /\ mHistogram.handle # 0
    /\ mHistogram.handle # CurrentHandle

\* C5: no step removes or replaces an entry of the cache or takes back its start or its
\* completion; every started computation can still complete, whatever the current key is;
\* and a step that puts a result into the histogram puts the result of the current key.
C5_CacheOnlyGrows ==
    /\ [][/\ Len(mMeanValues') >= Len(mMeanValues)
          /\ \A h \in Handles :
                /\ mMeanValues'[h] = [mMeanValues[h] EXCEPT !.ready = mMeanValues'[h].ready,
                                                            !.old = mMeanValues'[h].old]
                /\ isReady(mMeanValues[h]) => isReady(mMeanValues'[h])]_vars
    /\ [](\A h \in Handles :
            Alive /\ mMeanValues[h].started /\ ~isReady(mMeanValues[h]) => ENABLED WorkerFinishes(h))
    /\ [][mHistogram'.handle # mHistogram.handle /\ mHistogram'.handle # 0
            => mMeanValues'[mHistogram'.handle].key = CurrentKeyNext]_vars

\* a computation whose key is no longer current has completed, and the histogram shows the
\* result of the current key, not that one
C5_Witness ==
    /\ CurrentHandle # 0
    /\ mHistogram.handle = CurrentHandle
    /\ \E h \in Handles : h # CurrentHandle /\ isReady(mMeanValues[h]) /\ ~mMeanValues[h].old

(***************************************************************************)
(* Properties of pixel updates                                             *)
(***************************************************************************)
\* C3: every updateImage() of a shown image is followed by a bumpId() in a later
\* draw_contents(): the program never ends while an image still waits in mToBump.
C3_BumpNotLost == ~(crashed /\ mToBump # {})

(***************************************************************************)
(* Properties of the file dialogs and of the UI task queue                 *)
(***************************************************************************)
\* the dialog threads that were started and not joined yet
LiveThreads == {t \in 1..Len(dialogThreads) : dialogThreads[t].state # "joined"}

\* everything but the count of operations and the count of refusals
ViewerState ==
    <<mImages, mImageButtonContainer, mDraggedImageButtonId,
      buttonVisible, groupButtonVisible, mCurrentImage, mCurrentReference, mCurrentGroup,
      mFilter, mRequiresFilterUpdate, mToBump, mTaskQueue, mFileDialogThread, mSyncTonemapping,
      mImageExposures, mImageOffsets, mImageGammas, tonemapButtons, metricButtons, mHistogramScale,
      mHistogram, errorDialogs, canvas, mMeanValues, imageIds, sId, loaderRequests, loaderQueue,
      dialogThreads, threadedDialogs, crashed, uiWaits, callLog, scheduled, executed,
      mCurrCrop, cropText, mDragType, mDraggingStartPosition, cropList,
      mFoundPixels, mCurrentFoundPixelIdx, mPixelLocatorPrimaryHighlight, findNextEnabled>>

\* C6: at most one dialog thread exists at any time, and it is the one mFileDialogThread
\* names; openImageDialog() or saveImageDialog() invoked while mFileDialogThread is non-null
\* starts no thread, enqueues no load or save and changes no state of the viewer.
C6_OneDialogThread ==
    /\ [](Cardinality(LiveThreads) <= 1 /\ LiveThreads \subseteq {mFileDialogThread})
    /\ [][mFileDialogThread # NoThread /\ (OpenImageDialog \/ SaveImageDialog) => UNCHANGED ViewerState]_vars

\* a request was refused while a dialog thread was in its dialog
C6_Witness ==
    /\ refused > 0
    /\ mFileDialogThread # NoThread
    /\ dialogThreads[mFileDialogThread].state = "dialog"

\* C7: once a dialog has returned, its cleanup closure is executed in a later draw_contents():
\* the program never ends with a cleanup closure still in the queue.
C7_CleanupRuns == ~(crashed /\ \E k \in 1..Len(mTaskQueue) : mTaskQueue[k].kind = "cleanup")

\* C8: every closure passed to scheduleToUiThread() is executed in the next draw_contents():
\* a frame leaves the task queue empty.
C8_DrawEmptiesQueue == [][DrawContents => mTaskQueue' = <<>>]_vars

(***************************************************************************)
(* Properties of the tonemapping controls                                  *)
(***************************************************************************)
\* the images whose stored value a synchronised set reaches
SyncedImages == Range(mImages) \cup (IF mCurrentImage # NoImage THEN {mCurrentImage} ELSE {})

\* the stored values after a set of value v, from the stored values before it
StoredAfter(map, mapNext, v) ==
    IF mSyncTonemapping
    THEN /\ \A img \in SyncedImages : img \in DOMAIN mapNext /\ mapNext[img] = v
         /\ \A img \in (DOMAIN map) \ SyncedImages : img \in DOMAIN mapNext /\ mapNext[img] = map[img]
         /\ DOMAIN mapNext = (DOMAIN map) \cup SyncedImages
    ELSE /\ mCurrentImage # NoImage => mCurrentImage \in DOMAIN mapNext /\ mapNext[mCurrentImage] = v
         /\ \A img \in (DOMAIN map) \ {mCurrentImage} : img \in DOMAIN mapNext /\ mapNext[img] = map[img]
         /\ DOMAIN mapNext = (DOMAIN map) \cup (IF mCurrentImage # NoImage THEN {mCurrentImage} ELSE {})

\* C9: with Sync checked, setExposure/setOffset/setGamma(v) stores the rounded v for every
\* image of the list and for the current image; with Sync unchecked it stores it for the
\* current image only and leaves every other stored value as it was; the canvas receives
\* the rounded v in both modes, and the two other components stay as they were.
C9_SyncStores ==
    [][\A v \in SliderValues :
          /\ SetExposure(v) => /\ StoredAfter(mImageExposures, mImageExposures', round(v, 100))
                               /\ canvas'.mExposure = round(v, 100)
                               /\ UNCHANGED <<mImageOffsets, mImageGammas>>
          /\ SetOffset(v) => /\ StoredAfter(mImageOffsets, mImageOffsets', round(v, 10))
                             /\ canvas'.mOffset = round(v, 10)
                             /\ UNCHANGED <<mImageExposures, mImageGammas>>
          /\ SetGamma(v) => /\ StoredAfter(mImageGammas, mImageGammas', round(v, 10))
                            /\ canvas'.mGamma = round(v, 10)
                            /\ UNCHANGED <<mImageExposures, mImageOffsets>>]_vars

\* with Sync unchecked the exposure of the current image was set and the other image kept
\* the value a synchronised set had stored for it
C9_Witness ==
    /\ ~mSyncTonemapping
    /\ Len(mImages) = 2
    /\ mCurrentImage # NoImage
    /\ canvas.mExposure = round(1250, 100)
    /\ \A img \in Range(mImages) :
          /\ img \in DOMAIN mImageExposures
          /\ mImageExposures[img] = IF img = mCurrentImage THEN round(1250, 100) ELSE 0

\* C10: exactly one tonemap button and exactly one metric button is pushed, the one of the
\* tonemap and of the metric the canvas holds.
C10_OneActive ==
    /\ Cardinality({k \in 1..NumTonemapButtons : tonemapButtons[k]}) = 1
    /\ canvas.mTonemap + 1 \in 1..NumTonemapButtons /\ tonemapButtons[canvas.mTonemap + 1]
    /\ Cardinality({k \in 1..NumMetricButtons : metricButtons[k]}) = 1
    /\ canvas.mMetric + 1 \in 1..NumMetricButtons /\ metricButtons[canvas.mMetric + 1]

\* every value of map is still stored for its image in mapNext
keptIn(map, mapNext) == \A img \in DOMAIN map : img \in DOMAIN mapNext /\ mapNext[img] = map[img]

\* the canvas holds the exposure, offset and gamma that are stored for the current image
canvasShowsStored ==
    mCurrentImage # NoImage =>
        /\ canvas.mExposure = storedOr(mImageExposures, mCurrentImage, 0)
        /\ canvas.mOffset = storedOr(mImageOffsets, mCurrentImage, 0)
        /\ canvas.mGamma = storedOr(mImageGammas, mCurrentImage, DefaultGamma)

\* C30: while the Sync checkbox is checked, selecting a different image, one that was added
\* after the values were last set included, leaves the exposure, offset and gamma of the
\* canvas and the exposure, offset and gamma stored for every image unchanged; the values of
\* the canvas always equal the values stored for the current image.
C30_SyncKeepsValues ==
    /\ [][mSyncTonemapping /\ mSyncTonemapping' /\ mCurrentImage # NoImage
            /\ mCurrentImage' # NoImage /\ mCurrentImage' # mCurrentImage
          => /\ canvas'.mExposure = canvas.mExposure
             /\ canvas'.mOffset = canvas.mOffset
             /\ canvas'.mGamma = canvas.mGamma
             /\ keptIn(mImageExposures, mImageExposures')
             /\ keptIn(mImageOffsets, mImageOffsets')
             /\ keptIn(mImageGammas, mImageGammas')]_vars
    /\ [](canvasShowsStored)

(***************************************************************************)
(* Pixel values: floats as exact fractions n/d                             *)
(***************************************************************************)
RECURSIVE gcd(_, _)
gcd(a, b) == IF b = 0 THEN a ELSE gcd(b, a % b)

\* the float n/d, in lowest terms with d > 0
flt(n, d) ==
    LET sn == IF d < 0 THEN -n ELSE n
        sd == IF d < 0 THEN -d ELSE d
        g == gcd(IF sn < 0 THEN -sn ELSE sn, sd)
    IN [n |-> sn \div g, d |-> sd \div g]

fadd(a, b) == flt(a.n * b.d + b.n * a.d, a.d * b.d)
fsub(a, b) == flt(a.n * b.d - b.n * a.d, a.d * b.d)
fmul(a, b) == flt(a.n * b.n, a.d * b.d)
\* a / b for b # 0
fdiv(a, b) == flt(a.n * b.d, a.d * b.n)
fless(a, b) == a.n * b.d < b.n * a.d
fabs(a) == IF a.n < 0 THEN flt(-a.n, a.d) ELSE a
Zero == flt(0, 1)
One == flt(1, 1)

\* log(x) for the x > 0 the pixel values below lead to, in thousandths
log(x) ==
    CASE x = flt(1, 1000) -> flt(-6908, 1000)
      [] x = flt(1, 2) -> flt(-693, 1000)
      [] x = flt(1, 1) -> Zero
      [] x = flt(1001, 1000) -> flt(1, 1000)
      [] x = flt(3, 2) -> flt(405, 1000)
      [] x = flt(2, 1) -> flt(693, 1000)
      [] x = flt(3, 1) -> flt(1099, 1000)

(***************************************************************************)
(* ImageCanvas::applyMetric and the applyMetric of the fragment shader     *)
(***************************************************************************)
\* EMetric
Error == 0
SquaredError == 2
RelativeAbsoluteError == 3
RelativeSquaredError == 4
RelativeSquaredError2 == 5
LogAbsoluteError == 6

\* what a call returns: a value, or the exception it throws
Value(v) == [kind |-> "value", v |-> v]
Thrown == [kind |-> "error"]

\* ImageCanvas::applyMetric(image, reference, metric)
applyMetric(image, reference, metric) ==
    LET diff == fsub(image, reference)
    IN CASE metric = Error -> Value(diff)
         [] metric = AbsoluteError -> Value(fabs(diff))
         [] metric = SquaredError -> Value(fmul(diff, diff))
         [] metric = RelativeAbsoluteError -> Value(fdiv(fabs(diff), fadd(reference, flt(1, 100))))
         [] metric = RelativeSquaredError ->
                Value(fdiv(fmul(diff, diff), fadd(fmul(reference, reference), flt(1, 100))))
         [] metric = RelativeSquaredError2 -> Value(Zero)
         [] metric = LogAbsoluteError ->
                Value(fabs(fsub(log(fadd(One, image)), log(fadd(One, reference)))))
         [] OTHER -> Thrown

\* a vec3 with the same value in every component
vec3(x) == <<x, x, x>>

\* applyMetric(diff, reference) of the fragment shader, with the uniform metric
shaderApplyMetric(diff, reference, metric) ==
    CASE metric = Error -> Value(diff)
      [] metric = AbsoluteError -> Value([k \in 1..3 |-> fabs(diff[k])])
      [] metric = SquaredError -> Value([k \in 1..3 |-> fmul(diff[k], diff[k])])
      [] metric = RelativeAbsoluteError ->
             Value([k \in 1..3 |-> fdiv(fabs(diff[k]), fadd(reference[k], flt(1, 100)))])
      [] metric = RelativeSquaredError ->
             Value([k \in 1..3 |-> fdiv(fmul(diff[k], diff[k]),
                                        fadd(fmul(reference[k], reference[k]), flt(1, 100)))])
      [] metric = RelativeSquaredError2 ->
             LET refMean == fdiv(fadd(fadd(reference[1], reference[2]), reference[3]), flt(3, 1))
                 diffSquareMean == fdiv(fadd(fadd(fmul(diff[1], diff[1]), fmul(diff[2], diff[2])),
                                             fmul(diff[3], diff[3])), flt(3, 1))
             IN Value(vec3(fdiv(diffSquareMean, fadd(fmul(refMean, refMean), flt(1, 100)))))
      [] OTHER -> Value(vec3(Zero))

(***************************************************************************)
(* ImageCanvas::applyTonemap and the applyTonemap of the fragment shader   *)
(***************************************************************************)
\* ETonemap
SRGB == 0
Gamma == 1
FalseColor == 2
PositiveNegative == 3

\* pow(x, e) with e > 0, for the x the pixel values below lead to
pow(x, e) == CASE x = Zero -> Zero [] x = One -> One

\* log2(x) for the x the pixel values below lead to, in thousandths
log2(x) == CASE x = flt(1, 32) -> flt(-5, 1) [] x = One -> Zero [] x = flt(33, 32) -> flt(44, 1000)

fmin(a, b) == IF fless(b, a) THEN b ELSE a
fmax(a, b) == IF fless(a, b) THEN b ELSE a
mean3(v) == fdiv(fadd(fadd(v[1], v[2]), v[3]), flt(3, 1))

\* toSRGB(linear): the linear piece below 0.0031308, the power curve above
toSRGB(linear) ==
    IF ~fless(flt(31308, 10000000), linear)
    THEN fmul(flt(1292, 100), linear)
    ELSE fsub(fmul(flt(1055, 1000), pow(linear, flt(10, 24))), flt(55, 1000))

\* the lambda falseColor of applyTonemap: the entry of colormap::turbo() the value selects
falseColor(linear) ==
    LET scaled == fmul(linear, flt(256, 1))
        index == IF scaled.n < 0 THEN 0 ELSE scaled.n \div scaled.d
        start == 4 * (IF index > 255 THEN 255 ELSE index)
    IN [k \in 1..3 |-> [turbo |-> start + k - 1]]

\* result.cwiseMax(Vector3f::Zero()).cwiseMin(Vector3f::Ones()); colormap entries lie in [0, 1]
clamp01(v) == [k \in 1..3 |-> IF "turbo" \in DOMAIN v[k] THEN v[k] ELSE fmin(fmax(v[k], Zero), One)]

\* ImageCanvas::applyTonemap(value, gamma, tonemap)
applyTonemap(value, gamma, tonemap) ==
    CASE tonemap = SRGB -> Value(clamp01([k \in 1..3 |-> toSRGB(value[k])]))
      [] tonemap = Gamma -> Value(clamp01([k \in 1..3 |-> pow(value[k], fdiv(One, gamma))]))
      [] tonemap = FalseColor ->
             Value(clamp01(falseColor(fadd(fdiv(log2(fadd(mean3(value), flt(1, 32))), flt(10, 1)), flt(1, 2)))))
      [] tonemap = PositiveNegative ->
             Value(clamp01(<<fmul(flt(-2, 1), mean3([k \in 1..3 |-> fmin(value[k], Zero)])),
                             fmul(flt(2, 1), mean3([k \in 1..3 |-> fmax(value[k], Zero)])),
                             Zero>>))
      [] OTHER -> Thrown

\* float sRGB(float linear) of the fragment shader
sRGB(linear) ==
    IF fless(One, linear) THEN One
    ELSE IF fless(linear, Zero) THEN Zero
    ELSE IF fless(linear, flt(31308, 10000000)) THEN fmul(flt(1292, 100), linear)
    ELSE fsub(fmul(flt(1055, 1000), pow(linear, flt(41666, 100000))), flt(55, 1000))

\* vec3 falseColor(float v) of the fragment shader: the texel of the colormap texture
shaderFalseColor(v) == [k \in 1..3 |-> [colormap |-> fmin(fmax(v, Zero), One), c |-> k]]

\* applyTonemap(col, background) of the fragment shader for an opaque pixel (background.a = 0)
shaderApplyTonemap(col, gamma, tonemap) ==
    CASE tonemap = SRGB -> Value([k \in 1..3 |-> sRGB(col[k])])
      [] tonemap = Gamma -> Value([k \in 1..3 |-> pow(col[k], fdiv(One, gamma))])
      [] tonemap = FalseColor ->
             Value(shaderFalseColor(fadd(fdiv(log2(fadd(mean3(col), flt(1, 32))), flt(10, 1)), flt(1, 2))))
      [] tonemap = PositiveNegative ->
             Value(<<fmul(fmul(flt(-1, 1), mean3([k \in 1..3 |-> fmin(col[k], Zero)])), flt(2, 1)),
                     fmul(mean3([k \in 1..3 |-> fmax(col[k], Zero)]), flt(2, 1)),
                     Zero>>)
      [] OTHER -> Value(vec3(Zero))

(***************************************************************************)
(* Specification of the metric and tonemap operators                       *)
(***************************************************************************)
\* RGB values of a pixel
Colours ==
    {vec3(Zero), vec3(One), vec3(flt(2, 1)), <<flt(-1, 2), Zero, One>>, <<flt(1, 2), One, flt(2, 1)>>}

\* the colours on which pow and log2 above are defined for the tonemap
TonemapDomain(value, tonemap) ==
    CASE tonemap = SRGB -> \A k \in 1..3 : value[k] \in {flt(-1, 2), Zero, One}
      [] tonemap = Gamma -> \A k \in 1..3 : value[k] \in {Zero, One}
      [] tonemap = FalseColor -> value \in {vec3(Zero), vec3(One)}
      [] OTHER -> TRUE

\* the metric and the tonemap are ints cast to the enumeration: every value of the
\* enumeration, and the first one beyond it
InitOperators ==
    /\ InitCommon /\ threadedDialogs = TRUE
    /\ args \in [image : Colours, reference : Colours, metric : 0..NumMetrics,
                 tonemap : 0..NumTonemaps, gamma : {flt(DefaultGamma, 1000)}]
    /\ returned = [kind |-> "none"]

\* the call of fn returns r; a pure function changes nothing else
Returns(fn, r) == returned' = [fn |-> fn] @@ r /\ UNCHANGED <<args, ViewerState, ops, refused, statistics>>

ApplyMetric ==
    /\ returned.kind = "none"
    /\ Returns("applyMetric", applyMetric(args.image[1], args.reference[1], args.metric))

ShaderApplyMetric ==
    /\ returned.kind = "none"
    /\ Returns("shaderApplyMetric",
               shaderApplyMetric([k \in 1..3 |-> fsub(args.image[k], args.reference[k])], args.reference, args.metric))

ApplyTonemap ==
    /\ returned.kind = "none"
    /\ TonemapDomain(args.image, args.tonemap)
    /\ Returns("applyTonemap", applyTonemap(args.image, args.gamma, args.tonemap))

ShaderApplyTonemap ==
    /\ returned.kind = "none"
    /\ TonemapDomain(args.image, args.tonemap)
    /\ Returns("shaderApplyTonemap", shaderApplyTonemap(args.image, args.gamma, args.tonemap))

NextOperators == ApplyMetric \/ ShaderApplyMetric \/ ApplyTonemap \/ ShaderApplyTonemap

SpecOperators == InitOperators /\ [][NextOperators]_vars

(***************************************************************************)
(* Properties of the metric and tonemap operators                          *)
(***************************************************************************)
\* the metric operators as defined for a pixel: per channel, and jointly over the three
\* channels for RelativeSquaredError2
metricFormula(image, reference, metric) ==
    LET diff == [k \in 1..3 |-> fsub(image[k], reference[k])]
        square == [k \in 1..3 |-> fmul(diff[k], diff[k])]
    IN CASE metric = Error -> diff
         [] metric = AbsoluteError -> [k \in 1..3 |-> fabs(diff[k])]
         [] metric = SquaredError -> square
         [] metric = RelativeAbsoluteError ->
                [k \in 1..3 |-> fdiv(fabs(diff[k]), fadd(reference[k], flt(1, 100)))]
         [] metric = RelativeSquaredError ->
                [k \in 1..3 |-> fdiv(square[k], fadd(fmul(reference[k], reference[k]), flt(1, 100)))]
         [] metric = RelativeSquaredError2 ->
                vec3(fdiv(mean3(square), fadd(fmul(mean3(reference), mean3(reference)), flt(1, 100))))
         [] metric = LogAbsoluteError ->
                [k \in 1..3 |-> fabs(fsub(log(fadd(One, image[k])), log(fadd(One, reference[k]))))]

\* C11: applyMetric and applyTonemap, of the CPU and of the shader, end in an error for a
\* value outside the enumeration, and for every value of the enumeration return the value
\* the operator defines (for a metric: the value of metricFormula), never a default.
C11_NoSilentDefault ==
    returned.kind # "none" =>
        /\ returned.fn \in {"applyMetric", "shaderApplyMetric"} =>
              IF args.metric \in 0..(NumMetrics - 1)
              THEN /\ returned.kind = "value"
                   /\ returned.v = IF returned.fn = "applyMetric"
                                   THEN metricFormula(args.image, args.reference, args.metric)[1]
                                   ELSE metricFormula(args.image, args.reference, args.metric)
              ELSE returned.kind = "error"
        /\ returned.fn \in {"applyTonemap", "shaderApplyTonemap"} =>
              IF args.tonemap \in 0..(NumTonemaps - 1)
              THEN returned.kind = "value"
              ELSE returned.kind = "error"

\* C19: for every metric of the enumeration, applyMetric(value, reference) is zero exactly
\* when value equals reference.
C19_ZeroIffEqual ==
    (returned.kind = "value" /\ returned.fn = "applyMetric") =>
        (returned.v = Zero <=> args.image[1] = args.reference[1])

(***************************************************************************)
(* The crop panel: text boxes, crop list, crop drag                        *)
(***************************************************************************)
\* crop operations in one behaviour, texts a user types, crop-list length, mouse positions
\* and image coordinates of the model
MaxCropOps == 3
MaxCropList == 1
IntMax == 2147483647
CROP_MIN_SIZE == 3

IsDigit(c) == \E k \in 1..10 : Digits[k] = c
DigitValue(c) == (CHOOSE k \in 1..10 : Digits[k] = c) - 1

\* the magnitude of a run of digits; "range" once it exceeds what an int of that sign holds
\* the value of a run of digits under a sign; thrown once it does not fit an int
RECURSIVE magnitude(_, _, _)
magnitude(digits, v, negative) ==
    IF Len(digits) = 0 THEN Value(IF negative THEN -v ELSE v)
    ELSE IF v > IntMax \div 10 THEN Thrown
    ELSE IF v = IntMax \div 10 /\ DigitValue(Head(digits)) > (IF negative THEN 8 ELSE 7) THEN Thrown
    ELSE IF v = IntMax \div 10 /\ DigitValue(Head(digits)) = 8
         THEN (IF Len(digits) = 1 THEN Value(-IntMax - 1) ELSE Thrown)
    ELSE magnitude(Tail(digits), v * 10 + DigitValue(Head(digits)), negative)

\* what is left of str after its leading white space
RECURSIVE skipSpace(_)
skipSpace(str) == IF Len(str) > 0 /\ Head(str) = " " THEN skipSpace(Tail(str)) ELSE str

\* the longest run of digits str starts with
RECURSIVE digitRun(_)
digitRun(str) == IF Len(str) > 0 /\ IsDigit(Head(str)) THEN <<Head(str)>> \o digitRun(Tail(str)) ELSE <<>>

stoiDigits(digits, negative) ==
    IF Len(digits) = 0 THEN Thrown ELSE magnitude(digits, 0, negative)

stoiSigned(str) ==
    IF Len(str) > 0 /\ Head(str) = "-" THEN stoiDigits(digitRun(Tail(str)), TRUE)
    ELSE IF Len(str) > 0 /\ Head(str) = "+" THEN stoiDigits(digitRun(Tail(str)), FALSE)
    ELSE stoiDigits(digitRun(str), FALSE)

\* std::stoi(str): skips leading white space, takes an optional sign and the longest run of
\* digits, ignores what follows; throws std::invalid_argument when there is no digit and
\* std::out_of_range when the value does not fit an int
stoi(str) == stoiSigned(skipSpace(str))

\* validateCrop: TRUE when it returns an error message
validateCrop(minX, minY, maxX, maxY) == minX >= maxX \/ minY >= maxY

\* a setCrop that stores the box with its corners exchanged
setCropExchanged(s, crop) ==
    [s EXCEPT !.canvas.mCrop = IF crop = NoCrop THEN NoCrop ELSE [min |-> crop.max, max |-> crop.min]]

\* ImageCanvas::setCrop: the crop is sanitized, min <= max on every axis
setCrop(s, crop) ==
    [s EXCEPT !.canvas.mCrop =
        IF crop = NoCrop THEN NoCrop
        ELSE [min |-> <<IF crop.min[1] < crop.max[1] THEN crop.min[1] ELSE crop.max[1],
                        IF crop.min[2] < crop.max[2] THEN crop.min[2] ELSE crop.max[2]>>,
              max |-> <<IF crop.min[1] < crop.max[1] THEN crop.max[1] ELSE crop.min[1],
                        IF crop.min[2] < crop.max[2] THEN crop.max[2] ELSE crop.min[2]>>]]

\* the outcome of a handler: the state it leaves and what it returns or throws
Outcome(s, r) == [s |-> s, r |-> r]

\* catch (const std::exception& e) { return false; }
catchException(s, out) == IF out.r = Thrown THEN Outcome(s, Value(FALSE)) ELSE out

parsed(values) == \A v \in values : v # Thrown

\* the try block of updateCrop, after the four calls of std::stoi
updateCropBody(s, minX, minY, maxX, maxY) ==
    IF ~parsed({minX, minY, maxX, maxY}) THEN Outcome(s, Thrown)
    ELSE IF validateCrop(minX.v, minY.v, maxX.v, maxY.v) THEN Outcome(s, Value(FALSE))
    ELSE Outcome([setCrop(s, Box2i(minX.v, minY.v, maxX.v, maxY.v))
                     EXCEPT !.cropText.width = to_string(maxX.v - minX.v),
                            !.cropText.height = to_string(maxY.v - minY.v)],
                 Value(TRUE))

\* updateCrop, the callback of the four min/max text boxes; mUpdatingFromSizeFields is false
\* whenever a text box calls it
updateCrop(s) ==
    catchException(s, updateCropBody(s, stoi(s.cropText.minX), stoi(s.cropText.minY),
                                     stoi(s.cropText.maxX), stoi(s.cropText.maxY)))

\* the try block of updateCropFromSize, after the four calls of std::stoi
updateCropFromSizeBody(s, minX, minY, width, height) ==
    IF ~parsed({minX, minY, width, height}) THEN Outcome(s, Thrown)
    ELSE IF validateCrop(minX.v, minY.v, minX.v + width.v, minY.v + height.v) THEN Outcome(s, Value(FALSE))
    ELSE Outcome(setCrop([s EXCEPT !.cropText.maxX = to_string(minX.v + width.v),
                                   !.cropText.maxY = to_string(minY.v + height.v)],
                         Box2i(minX.v, minY.v, minX.v + width.v, minY.v + height.v)),
                 Value(TRUE))

\* updateCropFromSize, the callback of the width and height text boxes; mUpdatingFromMinMax
\* is false whenever a text box calls it
updateCropFromSize(s) ==
    catchException(s, updateCropFromSizeBody(s, stoi(s.cropText.minX), stoi(s.cropText.minY),
                                             stoi(s.cropText.width), stoi(s.cropText.height)))

\* ImageViewer::updateLayout: the text boxes show mCurrCrop, or 0 when there is none
cropTexts(c) == [minX |-> to_string(c.min[1]), minY |-> to_string(c.min[2]),
                 maxX |-> to_string(c.max[1]), maxY |-> to_string(c.max[2]),
                 width |-> to_string(c.max[1] - c.min[1]),
                 height |-> to_string(c.max[2] - c.min[2])]

updateLayout(s) ==
    [s EXCEPT !.cropText = cropTexts(IF s.mCurrCrop = NoCrop THEN Box2i(0, 0, 0, 0) ELSE s.mCurrCrop)]

\* addCropButtonCallback: a button for a valid box is added to the crop list
addCropButtonCallback(s, x1, y1, x2, y2) ==
    IF validateCrop(x1, y1, x2, y2) THEN s
    ELSE [s EXCEPT !.cropList = Append(s.cropList, Box2i(x1, y1, x2, y2))]

\* the callback of a crop-list button
cropButtonCallback(s, cropWindow) ==
    [setCrop(s, cropWindow) EXCEPT !.mCurrCrop = cropWindow, !.cropText = cropTexts(cropWindow)]

\* the try block of the callback of the add button, after the four calls of std::stoi
cropButtonAddBody(s, minX, minY, maxX, maxY) ==
    IF ~parsed({minX, minY, maxX, maxY}) THEN s
    ELSE IF validateCrop(minX.v, minY.v, maxX.v, maxY.v) THEN s
    ELSE updateLayout(addCropButtonCallback(setCrop(s, Box2i(minX.v, minY.v, maxX.v, maxY.v)),
                                            minX.v, minY.v, maxX.v, maxY.v))

\* the callback of the add button
cropButtonAddCallback(s) ==
    cropButtonAddBody(s, stoi(s.cropText.minX), stoi(s.cropText.minY),
                      stoi(s.cropText.maxX), stoi(s.cropText.maxY))

\* the lines of a crop list file, read one after the other
RECURSIVE readCropList(_, _)
readCropList(s, lines) ==
    IF Len(lines) = 0 THEN s
    ELSE readCropList(addCropButtonCallback(s, lines[1][1], lines[1][2], lines[1][3], lines[1][4]), Tail(lines))

\* the callback of the browse button: result is what the file dialog returned
browseCallback(s, result) ==
    IF result.size # 1 THEN s
    ELSE updateLayout(readCropList([setCrop(s, NoCrop) EXCEPT !.mCurrCrop = NoCrop, !.cropList = <<>>],
                                   result.lines))

\* Box2i of a list of points, the box that bounds them
boundingBox(a, b) ==
    [min |-> <<IF a[1] < b[1] THEN a[1] ELSE b[1], IF a[2] < b[2] THEN a[2] ELSE b[2]>>,
     max |-> <<IF a[1] < b[1] THEN b[1] ELSE a[1], IF a[2] < b[2] THEN b[2] ELSE a[2]>>]

\* norm(a - b) < CROP_MIN_SIZE
nearby(a, b) ==
    (a[1] - b[1]) * (a[1] - b[1]) + (a[2] - b[2]) * (a[2] - b[2]) < CROP_MIN_SIZE * CROP_MIN_SIZE

\* mouse_button_event on the canvas, left button, no image button being dragged
mouse_button_event(s, p, down, keyC) ==
    IF down
    THEN IF s.mCurrentImage # NoImage
         THEN [s EXCEPT !.mDraggingStartPosition = p, !.mDragType = IF keyC THEN "ImageCrop" ELSE "ImageDrag"]
         ELSE [s EXCEPT !.mDraggingStartPosition = p]
    ELSE [(IF s.mDragType = "ImageCrop" /\ nearby(s.mDraggingStartPosition, p)
           THEN [setCrop(s, NoCrop) EXCEPT !.mCurrCrop = NoCrop]
           ELSE s) EXCEPT !.mDragType = "None"]

\* crop.max += Vector2i{1}
grown(crop) == [crop EXCEPT !.max = <<crop.max[1] + 1, crop.max[2] + 1>>]

dragged(s, crop) == [setCrop(s, crop) EXCEPT !.mCurrCrop = crop]

\* mouse_motion_event_f, case ImageCrop: start and stop are the image coordinates of the
\* two mouse positions under the transform of the canvas
mouse_motion_event_f(s, p, start, stop) ==
    IF s.mDragType # "ImageCrop" \/ nearby(s.mDraggingStartPosition, p) THEN s
    ELSE dragged(s, grown(boundingBox(start, stop)))

\* the text a user types into a crop text box
Typed == {<<"0">>, <<"2">>, <<"-", "1">>, <<"1", "x">>, <<"x">>,
          <<"9", "9", "9", "9", "9", "9", "9", "9", "9", "9", "9">>}
\* the mouse positions and the image coordinates they map to
MousePositions == {<<0, 0>>, <<0, 3>>}
ImageCoords == {<<0, 0>>, <<2, 1>>}
\* what the file dialog returns: no path, or the path of a crop list file with these lines
FileDialogResults == {[size |-> 0]} \cup {[size |-> 1, lines |-> lines] :
                                             lines \in {<<>>, <<<<0, 0, 2, 2>>>>, <<<<2, 2, 0, 0>>>>}}

MayCrop == Alive /\ ops < MaxCropOps

\* the call of a crop operation and its outcome, for the properties
Called(s, call, r) ==
    [BeginOp(s) EXCEPT !.args = call @@ [text |-> cropText, crop |-> canvas.mCrop], !.returned = r]

\* nanogui keeps the text of a text box when its callback returns true and restores the
\* previous text when it returns false
commit(s, box, out) ==
    IF out.r = Value(TRUE) THEN out.s ELSE [out.s EXCEPT !.cropText[box] = s.cropText[box]]

committed(s, box, t, fn, out) == Called(commit(s, box, out), [fn |-> fn, text |-> t.cropText], out.r)

edited(s, box, t) ==
    IF box \in {"width", "height"} THEN committed(s, box, t, "updateCropFromSize", updateCropFromSize(t))
    ELSE committed(s, box, t, "updateCrop", updateCrop(t))

\* a text box of the crop panel is edited
EditCropText ==
    /\ MayCrop
    /\ \E box \in CropBoxes, text \in Typed :
          Becomes(edited(St, box, [St EXCEPT !.cropText[box] = text]))

ClickCropButton ==
    /\ MayCrop
    /\ \E k \in 1..Len(cropList) :
          Becomes(Called(cropButtonCallback(St, cropList[k]), [fn |-> "cropButton"], Value(TRUE)))

ClickAddCrop ==
    /\ MayCrop
    /\ Len(cropList) < MaxCropList
    /\ Becomes(Called(cropButtonAddCallback(St), [fn |-> "cropButtonAdd"], Value(TRUE)))

BrowseCropFile ==
    /\ MayCrop
    /\ \E result \in FileDialogResults :
          Becomes(Called(browseCallback(St, result), [fn |-> "browse"], Value(TRUE)))

MouseButton ==
    /\ MayCrop
    /\ \E p \in MousePositions, keyC \in BOOLEAN :
          /\ (mDragType = "None") \/ ~keyC
          /\ Becomes(Called(mouse_button_event(St, p, mDragType = "None", keyC),
                            [fn |-> "mouse_button_event", p |-> p, down |-> mDragType = "None"], Value(TRUE)))

MouseMotion ==
    /\ MayCrop
    /\ mDragType = "ImageCrop"
    /\ \E p \in MousePositions, start \in ImageCoords, stop \in ImageCoords :
          Becomes(Called(mouse_motion_event_f(St, p, start, stop),
                         [fn |-> "mouse_motion_event_f", p |-> p, start |-> start, stop |-> stop], Value(TRUE)))

\* the window is resized and the next frame lays the widgets out
UpdateLayout ==
    /\ Alive
    /\ Becomes(updateLayout(St))

NextCrop ==
    \/ DropEvent \/ LoaderFinish \/ DrawContents \/ WorkerFinish
    \/ EditCropText \/ ClickCropButton \/ ClickAddCrop \/ BrowseCropFile
    \/ MouseButton \/ MouseMotion \/ UpdateLayout

SpecCrop == Init /\ [][NextCrop]_vars

(***************************************************************************)
(* Properties of the crop panel                                            *)
(***************************************************************************)
\* the text is an integer: an optional sign and digits, nothing else, and the value fits an int
IsInteger(str) ==
    /\ Len(str) > 0
    /\ IsDigit(str[1]) \/ (str[1] \in {"-", "+"} /\ Len(str) > 1)
    /\ \A k \in 2..Len(str) : IsDigit(str[k])
    /\ stoi(str) # Thrown

\* what the min/max text boxes hold is no crop: a text is no integer, or min >= max on an axis
InvalidMinMax(text) ==
    \/ \E b \in {"minX", "minY", "maxX", "maxY"} : ~IsInteger(text[b])
    \/ stoi(text.minX).v >= stoi(text.maxX).v
    \/ stoi(text.minY).v >= stoi(text.maxY).v

\* the same for the width/height text boxes, where max = min + size
InvalidSize(text) ==
    \/ \E b \in {"minX", "minY", "width", "height"} : ~IsInteger(text[b])
    \/ stoi(text.minX).v >= stoi(text.minX).v + stoi(text.width).v
    \/ stoi(text.minY).v >= stoi(text.minY).v + stoi(text.height).v

\* C12: a crop entered through the min/max or width/height text boxes with minX >= maxX or
\* minY >= maxY, or with text that does not parse as an integer, is rejected: the callback
\* returns false, throws nothing, and leaves the canvas crop unchanged.
C12_InvalidCropRejected ==
    (\/ args.fn = "updateCrop" /\ InvalidMinMax(args.text)
     \/ args.fn = "updateCropFromSize" /\ InvalidSize(args.text))
        => (returned = Value(FALSE) /\ canvas.mCrop = args.crop)

\* C13: after any sequence of crop operations (text-box edits, crop-list button clicks, crop
\* drags in any direction, click-to-reset, crop-file browse), the crop held by the canvas is
\* either absent or a box with min <= max on both axes.
C13_CropOrdered ==
    canvas.mCrop # NoCrop =>
        (canvas.mCrop.min[1] <= canvas.mCrop.max[1] /\ canvas.mCrop.min[2] <= canvas.mCrop.max[2])

\* a drag from the right to the left has set the crop
C13_Witness ==
    /\ args.fn = "mouse_motion_event_f" /\ args.start[1] > args.stop[1]
    /\ canvas.mCrop # NoCrop /\ canvas.mCrop # args.crop

\* C28: after every operation that changes the crop (min/max text boxes, width/height text
\* boxes, crop-list button, crop drag, click-to-reset, crop-file browse), mCurrCrop of the
\* viewer equals the crop held by the canvas, so that the next updateLayout() writes the
\* crop of the canvas into the crop text boxes.
C28_CurrCropIsCanvasCrop ==
    /\ [][canvas'.mCrop # canvas.mCrop => mCurrCrop' = canvas'.mCrop]_vars
    /\ [][UpdateLayout =>
             cropText' = cropTexts(IF canvas.mCrop = NoCrop THEN Box2i(0, 0, 0, 0) ELSE canvas.mCrop)]_vars

(***************************************************************************)
(* Pixel data of images                                                    *)
(***************************************************************************)
\* no image: nullptr of shared_ptr<Image> where the pixel data matter
NoPicture == [none |-> TRUE]

\* a read outside the data of a channel is undefined
Undefined == [kind |-> "undefined"]

\* Channel::eval({x, y}) of a channel of an image of the given size
eval(channel, size, x, y) ==
    IF 0 <= x /\ x < size[1] /\ 0 <= y /\ y < size[2] THEN channel.data[y + 1][x + 1] ELSE Undefined

\* Channel::isAlpha(name)
isAlpha(name) == name = "A"

\* the images of one size whose channels have the given names and values
Pictures(size, names, values) ==
    {[size |-> size,
      channels |-> [c \in 1..Len(names) |-> [name |-> names[c], data |-> data[c]]]] :
        data \in [1..Len(names) -> [1..size[2] -> [1..size[1] -> values]]]}

(***************************************************************************)
(* The pixel locator: Find Max, Find Min, Find First                       *)
(***************************************************************************)
\* Box2i::isValid: the box is not inverted
isValid(box) == box.max[1] >= box.min[1] /\ box.max[2] >= box.min[2]

\* Box2i::intersect
intersect(a, b) ==
    [min |-> <<IF a.min[1] > b.min[1] THEN a.min[1] ELSE b.min[1], IF a.min[2] > b.min[2] THEN a.min[2] ELSE b.min[2]>>,
     max |-> <<IF a.max[1] < b.max[1] THEN a.max[1] ELSE b.max[1], IF a.max[2] < b.max[2] THEN a.max[2] ELSE b.max[2]>>]

\* ImageCanvas::cropInImageCoords: the part of the crop that lies on the image, the whole
\* image when there is no crop
cropInImageCoords(image, crop) ==
    IF crop = NoCrop THEN Box2i(0, 0, image.size[1], image.size[2])
    ELSE intersect(crop, Box2i(0, 0, image.size[1], image.size[2]))

\* the region buildChannelProcessContext takes from the canvas
regionOf(size, region) == IF isValid(region) THEN region ELSE Box2i(0, 0, size[1], size[2])

\* buildChannelProcessContext: w holds the current image with the channels of the current
\* group, the reference, the crop and the metric of the canvas
buildChannelProcessContext(w) ==
    IF w.image = NoPicture THEN [ok |-> FALSE]
    ELSE IF Len(w.image.channels) = 0 THEN [ok |-> FALSE]
    ELSE [ok |-> TRUE, channels |-> w.image.channels, size |-> w.image.size,
          hasReference |-> w.reference # NoPicture,
          referenceChannels |-> IF w.reference # NoPicture THEN w.reference.channels ELSE <<>>,
          referenceSize |-> IF w.reference # NoPicture THEN w.reference.size ELSE <<0, 0>>,
          refOffset |-> IF w.reference # NoPicture
                        THEN <<(w.reference.size[1] - w.image.size[1]) \div 2,
                               (w.reference.size[2] - w.image.size[2]) \div 2>>
                        ELSE <<0, 0>>,
          metric |-> w.metric,
          region |-> regionOf(w.image.size, cropInImageCoords(w.image, w.crop))]

half(v) == fmul(flt(1, 2), v)

\* the value forEachChannelPixelValue passes for channel ci at (x, y)
channelPixelValue(ctx, ci, x, y) ==
    IF ~ctx.hasReference THEN eval(ctx.channels[ci], ctx.size, x, y)
    ELSE IF isAlpha(ctx.channels[ci].name)
    THEN half(fadd(eval(ctx.channels[ci], ctx.size, x, y),
                   IF ci <= Len(ctx.referenceChannels)
                   THEN eval(ctx.referenceChannels[ci], ctx.referenceSize,
                             x + ctx.refOffset[1], y + ctx.refOffset[2])
                   ELSE One))
    ELSE applyMetric(eval(ctx.channels[ci], ctx.size, x, y),
                     IF ci <= Len(ctx.referenceChannels)
                     THEN eval(ctx.referenceChannels[ci], ctx.referenceSize,
                               x + ctx.refOffset[1], y + ctx.refOffset[2])
                     ELSE Zero,
                     ctx.metric).v

\* the k-th call of fn, k from 0, over a region of the given width and height
visited(ctx, ci, x, y) == [ci |-> ci, pos |-> <<x, y>>, val |-> channelPixelValue(ctx, ci, x, y)]

visit(ctx, k, width, height) ==
    visited(ctx, (k \div (width * height)) + 1,
            ctx.region.min[1] + ((k % (width * height)) % width),
            ctx.region.min[2] + ((k % (width * height)) \div width))

visitsOver(ctx, width, height) ==
    IF width <= 0 \/ height <= 0 THEN <<>>
    ELSE [k \in 1..(Len(ctx.channels) * width * height) |-> visit(ctx, k - 1, width, height)]

\* forEachChannelPixelValue: the calls of fn, in order
forEachChannelPixelValue(ctx) ==
    visitsOver(ctx, ctx.region.max[1] - ctx.region.min[1], ctx.region.max[2] - ctx.region.min[2])

\* -infinity and +infinity of float
NegInfinity == [inf |-> -1]
PosInfinity == [inf |-> 1]

\* val > maxVal and val < minVal
greater(val, maxVal) == IF maxVal = NegInfinity THEN TRUE ELSE fless(maxVal, val)
less(val, minVal) == IF minVal = PosInfinity THEN TRUE ELSE fless(val, minVal)

\* the lambda of Find Max, applied to the calls in order
RECURSIVE findMaxOver(_, _, _)
findMaxOver(visits, maxPos, maxVal) ==
    IF Len(visits) = 0 THEN [pos |-> maxPos, val |-> maxVal]
    ELSE IF greater(Head(visits).val, maxVal) THEN findMaxOver(Tail(visits), Head(visits).pos, Head(visits).val)
    ELSE findMaxOver(Tail(visits), maxPos, maxVal)

\* the lambda of Find Min, applied to the calls in order
RECURSIVE findMinOver(_, _, _)
findMinOver(visits, minPos, minVal) ==
    IF Len(visits) = 0 THEN [pos |-> minPos, val |-> minVal]
    ELSE IF less(Head(visits).val, minVal) THEN findMinOver(Tail(visits), Head(visits).pos, Head(visits).val)
    ELSE findMinOver(Tail(visits), minPos, minVal)

\* the pixels the search has read and what the status label shows
Located(s, fn, visits, status) ==
    [s EXCEPT !.returned = [kind |-> "value", fn |-> fn, status |-> status,
                            examined |-> {<<visits[k].ci, visits[k].pos>> : k \in 1..Len(visits)}]]

\* focusPixel, updateStatusText and the reset of the range search at the end of Find Max / Min
foundExtremum(s, fn, visits, found, label) ==
    [Located(s, fn, visits, [label |-> label, pos |-> found.pos, val |-> found.val]) EXCEPT
        !.mFoundPixels = <<>>, !.mCurrentFoundPixelIdx = -1, !.findNextEnabled = FALSE,
        !.mPixelLocatorPrimaryHighlight = found.pos]

findMaxIn(s, visits) == foundExtremum(s, "findMax", visits, findMaxOver(visits, <<0, 0>>, NegInfinity), "Maximum")
findMinIn(s, visits) == foundExtremum(s, "findMin", visits, findMinOver(visits, <<0, 0>>, PosInfinity), "Minimum")

NotRun(s, fn) == [s EXCEPT !.returned = [kind |-> "return", fn |-> fn]]

\* the callback of findMaxButton
findMaxCallback(s, w) ==
    IF ~buildChannelProcessContext(w).ok THEN NotRun(s, "findMax")
    ELSE findMaxIn(s, forEachChannelPixelValue(buildChannelProcessContext(w)))

\* the callback of findMinButton
findMinCallback(s, w) ==
    IF ~buildChannelProcessContext(w).ok THEN NotRun(s, "findMin")
    ELSE findMinIn(s, forEachChannelPixelValue(buildChannelProcessContext(w)))

\* the visits whose value lies in [minVal, maxVal], in order
RECURSIVE inRange(_, _, _)
inRange(visits, minVal, maxVal) ==
    IF Len(visits) = 0 THEN <<>>
    ELSE IF ~fless(Head(visits).val, minVal) /\ ~fless(maxVal, Head(visits).val)
         THEN <<[pos |-> Head(visits).pos, val |-> Head(visits).val]>> \o inRange(Tail(visits), minVal, maxVal)
    ELSE inRange(Tail(visits), minVal, maxVal)

\* std::sort by value: the entries of equal value may come in any order; this is one order
RECURSIVE sortByValue(_)
sortByValue(entries) ==
    IF Len(entries) = 0 THEN <<>>
    ELSE LET k == CHOOSE k \in 1..Len(entries) :
                     /\ \A j \in 1..Len(entries) : ~fless(entries[j].val, entries[k].val)
                     /\ \A j \in 1..(k - 1) : fless(entries[k].val, entries[j].val)
         IN <<entries[k]>> \o sortByValue([j \in 1..(Len(entries) - 1) |-> IF j < k THEN entries[j] ELSE entries[j + 1]])

foundRange(s, visits, found) ==
    IF Len(found) > 0
    THEN [Located(s, "findFirst", visits, [label |-> "Range", pos |-> found[1].pos, val |-> found[1].val]) EXCEPT
             !.mFoundPixels = found, !.mCurrentFoundPixelIdx = 0, !.findNextEnabled = TRUE,
             !.mPixelLocatorPrimaryHighlight = found[1].pos]
    ELSE [Located(s, "findFirst", visits, [label |-> "No pixels found in the specified range"]) EXCEPT
             !.mFoundPixels = found, !.findNextEnabled = FALSE,
             !.mPixelLocatorPrimaryHighlight = NoPixel]

findRangeIn(s, visits, minVal, maxVal) == foundRange(s, visits, sortByValue(inRange(visits, minVal, maxVal)))

\* the callback of mFindRangeButton, after std::stof of the two range text boxes
findRangeCallback(s, w) ==
    IF ~buildChannelProcessContext(w).ok THEN NotRun(s, "findFirst")
    ELSE findRangeIn(s, forEachChannelPixelValue(buildChannelProcessContext(w)),
                     fmin(w.rangeMin, w.rangeMax), fmax(w.rangeMin, w.rangeMax))

\* the images, crops and ranges of the model of the pixel locator
LocatorSize == <<2, 1>>
LocatorPictures ==
    Pictures(LocatorSize, <<"R">>, {Zero, One}) \cup Pictures(LocatorSize, <<"R", "G">>, {Zero, One})
LocatorCrops ==
    {NoCrop, Box2i(0, 0, 1, 1), Box2i(1, 0, 2, 1), Box2i(0, 0, 2, 1), Box2i(1, 0, 3, 2),
     Box2i(2, 0, 3, 1), Box2i(3, 3, 4, 4)}

InitLocator ==
    /\ InitCommon /\ threadedDialogs = TRUE
    /\ args \in [image : LocatorPictures, reference : {NoPicture}, crop : LocatorCrops,
                 metric : {AbsoluteError}, rangeMin : {Zero, One}, rangeMax : {Zero, flt(2, 1)}]
    /\ returned = [kind |-> "none"]

FindMax ==
    /\ returned.kind = "none"
    /\ Becomes(findMaxCallback(St, args))

FindMin ==
    /\ returned.kind = "none"
    /\ Becomes(findMinCallback(St, args))

FindFirst ==
    /\ returned.kind = "none"
    /\ Becomes(findRangeCallback(St, args))

NextLocator == FindMax \/ FindMin \/ FindFirst

SpecLocator == InitLocator /\ [][NextLocator]_vars

\* the pixels of the image inside the crop, all of them when no crop is set
CropPixels(image, crop) ==
    {p \in (0..(image.size[1] - 1)) \X (0..(image.size[2] - 1)) :
        crop # NoCrop => (/\ crop.min[1] <= p[1] /\ p[1] < crop.max[1]
                          /\ crop.min[2] <= p[2] /\ p[2] < crop.max[2])}

\* the position the search reports, if it reports one
Reports(pos) == returned.status.label # "No pixels found in the specified range" /\ returned.status.pos = pos

\* C14: with a valid crop set, Find Max, Find Min and Find First examine exactly the pixels
\* (x, y) with crop.min <= (x, y) < crop.max of each channel of the current group (the whole
\* image when no crop is set); the position they report and every entry of mFoundPixels lies
\* inside the crop, and a search whose region contains no matching pixel reports no match.
C14_SearchInsideCrop ==
    (returned.kind = "value" /\ returned.fn \in {"findMax", "findMin", "findFirst"}) =>
        /\ returned.examined = (1..Len(args.image.channels)) \X CropPixels(args.image, args.crop)
        /\ \A pos \in (0..4) \X (0..4) : Reports(pos) => pos \in CropPixels(args.image, args.crop)
        /\ \A k \in 1..Len(mFoundPixels) : mFoundPixels[k].pos \in CropPixels(args.image, args.crop)
        /\ CropPixels(args.image, args.crop) = {} =>
              returned.status.label = "No pixels found in the specified range"

(***************************************************************************)
(* Pixel locator: Find Next, Reset and the selection of an image           *)
(***************************************************************************)
MaxLocatorOps == 4

\* ImageViewer::clearPixelLocatorState
clearPixelLocatorState(s) ==
    [s EXCEPT !.mFoundPixels = <<>>, !.mCurrentFoundPixelIdx = -1,
              !.mPixelLocatorPrimaryHighlight = NoPixel, !.findNextEnabled = FALSE]

\* the callback of mFindNextRangeButton
findNextCallback(s) ==
    IF Len(s.mFoundPixels) = 0 \/ s.mCurrentFoundPixelIdx < 0 THEN NotRun(s, "findNext")
    ELSE LET idx == (s.mCurrentFoundPixelIdx + 1) % Len(s.mFoundPixels)
         IN [s EXCEPT !.mCurrentFoundPixelIdx = idx,
                      !.mPixelLocatorPrimaryHighlight = s.mFoundPixels[idx + 1].pos,
                      !.returned = [kind |-> "value", fn |-> "findNext",
                                    status |-> [label |-> "Range", pos |-> s.mFoundPixels[idx + 1].pos,
                                                val |-> s.mFoundPixels[idx + 1].val]]]

\* the images that are selected while the locator is in use
LocatorSelectable == {NoPicture} \cup Pictures(LocatorSize, <<"R">>, {Zero, One})

MayLocate == ops < MaxLocatorOps

PressFindMax ==
    /\ MayLocate
    /\ Becomes(BeginOp(findMaxCallback(St, args)))

PressFindMin ==
    /\ MayLocate
    /\ Becomes(BeginOp(findMinCallback(St, args)))

\* text typed into the two range text boxes and a press of mFindRangeButton
PressFindRange ==
    /\ MayLocate
    /\ \E rangeMin \in {Zero, One}, rangeMax \in {Zero, flt(2, 1)} :
          Becomes(BeginOp(findRangeCallback([St EXCEPT !.args.rangeMin = rangeMin, !.args.rangeMax = rangeMax],
                                            [args EXCEPT !.rangeMin = rangeMin, !.rangeMax = rangeMax])))

\* a press of mFindNextRangeButton, which reacts while it is enabled
PressFindNext ==
    /\ MayLocate /\ findNextEnabled
    /\ Becomes(BeginOp(findNextCallback(St)))

PressReset ==
    /\ MayLocate
    /\ Becomes(BeginOp([clearPixelLocatorState(St) EXCEPT !.returned = [kind |-> "void", fn |-> "reset"]]))

\* selectImage of another image or of nullptr: the canvas shows it and the locator is cleared
LocatorSelectImage ==
    /\ MayLocate
    /\ \E image \in LocatorSelectable :
          Becomes(BeginOp([clearPixelLocatorState(St) EXCEPT !.args.image = image,
                                                             !.returned = [kind |-> "void", fn |-> "selectImage"]]))

NextLocatorState ==
    \/ PressFindMax \/ PressFindMin \/ PressFindRange \/ PressFindNext \/ PressReset \/ LocatorSelectImage

SpecLocatorState == InitLocator /\ [][NextLocatorState]_vars

\* mCurrentFoundPixelIdx is -1 exactly when mFoundPixels is empty, and otherwise an index
\* of mFoundPixels whose position is the primary highlight
indexInFoundPixels ==
    /\ mCurrentFoundPixelIdx = -1 <=> Len(mFoundPixels) = 0
    /\ Len(mFoundPixels) > 0 =>
          /\ 0 <= mCurrentFoundPixelIdx /\ mCurrentFoundPixelIdx < Len(mFoundPixels)
          /\ mPixelLocatorPrimaryHighlight = mFoundPixels[mCurrentFoundPixelIdx + 1].pos

\* the found pixels are in ascending order of their values
ascendingValues ==
    \A k \in 1..Len(mFoundPixels) : \A j \in 1..(k - 1) : ~fless(mFoundPixels[k].val, mFoundPixels[j].val)

\* C29: in the pixel locator, mCurrentFoundPixelIdx is -1 exactly when mFoundPixels is empty
\* and otherwise satisfies 0 <= index < size with the primary highlight equal to
\* mFoundPixels[index]; the Find Next button is enabled exactly when mFoundPixels is not
\* empty; Find Next visits the found pixels in ascending order of value and wraps around;
\* selecting an image, Reset, Find Max and Find Min empty the list.
C29_LocatorIndex ==
    /\ [](indexInFoundPixels /\ ascendingValues /\ (findNextEnabled <=> Len(mFoundPixels) > 0))
    /\ [][PressFindNext =>
             /\ mFoundPixels' = mFoundPixels
             /\ mCurrentFoundPixelIdx' = (mCurrentFoundPixelIdx + 1) % Len(mFoundPixels)]_vars
    /\ [][PressFindMax \/ PressFindMin \/ PressReset \/ LocatorSelectImage =>
             Len(mFoundPixels') = 0 /\ mCurrentFoundPixelIdx' = -1]_vars

(***************************************************************************)
(* Values of the pixels of an image under a reference                      *)
(***************************************************************************)
\* a / b of int: the quotient is truncated towards zero
cdiv(a, b) == IF a >= 0 THEN a \div b ELSE -((-a) \div b)

\* floor(a) of a float
ffloor(a) == a.n \div a.d

\* an operation on floats yields an undefined value when an operand is one
lifted(Op(_, _), a, b) == IF a = Undefined \/ b = Undefined THEN Undefined ELSE Op(a, b)

\* ImageCanvas::applyMetric on values that were read
metricValue(image, reference, metric) ==
    IF image = Undefined \/ reference = Undefined THEN Undefined ELSE applyMetric(image, reference, metric).v

\* referenceChannels[c] of a vector<string>: undefined beyond the end of the vector
channelAt(channels, c) == IF c <= Len(channels) THEN channels[c] ELSE Undefined

\* reference->channel(name)->eval({x, y})
evalAt(channel, size, pos) == IF channel = Undefined THEN Undefined ELSE eval(channel, size, pos[1], pos[2])

RECURSIVE total(_)
total(values) == IF Len(values) = 0 THEN Zero ELSE lifted(fadd, Head(values), total(Tail(values)))

squaredDifference(a, b) == fmul(fsub(a, b), fsub(a, b))

\* diffSquareSumMean / (refMeanSquare + 1e-2) with refMean /= 3.f and diffSquareSum / 3.f
jointQuotient(diffSquareSum, refMean) ==
    fdiv(fdiv(diffSquareSum, flt(3, 1)),
         fadd(fmul(fdiv(refMean, flt(3, 1)), fdiv(refMean, flt(3, 1))), flt(1, 100)))

\* the branch of RelativeSquaredError2: one value from all the values of a pixel and the
\* reference values at the same indices
relativeSquaredError2(values, refs) ==
    lifted(jointQuotient,
           total([c \in 1..Len(values) |-> lifted(squaredDifference, values[c], refs[c])]),
           total(refs))

\* Vector2i offset = (reference->size() - size) / 2
offsetOf(image, reference) ==
    <<cdiv(reference.size[1] - image.size[1], 2), cdiv(reference.size[2] - image.size[2], 2)>>

plus(p, q) == <<p[1] + q[1], p[2] + q[2]>>

\* the values of the reference channels 1..n at a position
referenceValues(reference, n, pos) ==
    [c \in 1..n |-> evalAt(channelAt(reference.channels, c), reference.size, pos)]

imageValues(image, pos) == [c \in 1..Len(image.channels) |-> evalAt(image.channels[c], image.size, pos)]

\* bool onlyAlpha of channelsFromImages
onlyAlpha(image) == \A c \in 1..Len(image.channels) : image.channels[c].name = "A"

average(a, b) == half(fadd(a, b))

\* the value channelsFromImages stores in result[c].at({x, y}) when there is a reference
flattenedValue(image, reference, metric, c, pos) ==
    IF metric = RelativeSquaredError2
    THEN relativeSquaredError2(imageValues(image, pos),
                               referenceValues(reference, Len(image.channels), plus(pos, offsetOf(image, reference))))
    ELSE IF c <= Len(reference.channels)
    THEN IF ~onlyAlpha(image) /\ image.channels[c].name = "A"
         THEN lifted(average, evalAt(image.channels[c], image.size, pos),
                     evalAt(reference.channels[c], reference.size, plus(pos, offsetOf(image, reference))))
         ELSE metricValue(evalAt(image.channels[c], image.size, pos),
                          evalAt(reference.channels[c], reference.size, plus(pos, offsetOf(image, reference))),
                          metric)
    ELSE IF ~onlyAlpha(image) /\ image.channels[c].name = "A"
         THEN evalAt(image.channels[c], image.size, pos)
         ELSE metricValue(evalAt(image.channels[c], image.size, pos), Zero, metric)

\* ImageCanvas::channelsFromImages(image, reference, requestedChannelGroup, metric); the
\* channels of an image are those of the requested group, under the tails of their names
channelsFromImages(image, reference, metric) ==
    IF image = NoPicture THEN <<>>
    ELSE IF reference = NoPicture
    THEN [c \in 1..Len(image.channels) |->
            [name |-> image.channels[c].name,
             data |-> [y \in 1..image.size[2] |-> [x \in 1..image.size[1] |->
                          evalAt(image.channels[c], image.size, <<x - 1, y - 1>>)]]]]
    ELSE [c \in 1..Len(image.channels) |->
            [name |-> image.channels[c].name,
             data |-> [y \in 1..image.size[2] |-> [x \in 1..image.size[1] |->
                          flattenedValue(image, reference, metric, c, <<x - 1, y - 1>>)]]]]

\* the pixels of an image
pixelsOf(image) == (0..(image.size[1] - 1)) \X (0..(image.size[2] - 1))

\* the indices into referenceChannels the loops over the channels use
referenceIndices(image, reference, metric) ==
    IF metric = RelativeSquaredError2 THEN 1..Len(image.channels)
    ELSE {c \in 1..Len(image.channels) : c <= Len(reference.channels)}

\* the reads of channels of the reference channelsFromImages makes: the index into
\* referenceChannels and the position passed to eval
flattenReads(image, reference, metric) ==
    IF image = NoPicture \/ reference = NoPicture THEN {}
    ELSE {[channel |-> c, pos |-> plus(p, offsetOf(image, reference))] :
            c \in referenceIndices(image, reference, metric), p \in pixelsOf(image)}

\* the size of the canvas widget; mTransform is the identity and mPixelRatio is 1
CanvasSize == <<4, 2>>

\* ImageCanvas::pixelOffset(size)
pixelOffset(size) ==
    <<fadd(IF size[1] % 2 = 0 THEN flt(1, 2) ELSE Zero, flt(1111111, 10000000)),
      fadd(IF size[2] % 2 = 0 THEN flt(-1, 2) ELSE Zero, flt(1111111, 10000000))>>

\* the inverse of textureToNanogui(&image) on one axis, floored
imageCoord(extent, canvasExtent, offset, mouse) ==
    ffloor(fsub(fsub(flt(mouse, 1), flt(canvasExtent, 2)), fadd(flt(-extent, 2), offset)))

\* ImageCanvas::getImageCoords(image, mousePos)
getImageCoords(image, mousePos) ==
    <<imageCoord(image.size[1], CanvasSize[1], pixelOffset(image.size)[1], mousePos[1]),
      imageCoord(image.size[2], CanvasSize[2], pixelOffset(image.size)[2], mousePos[2])>>

\* the loop of getValuesAtNanoPos over result when there is a reference
comparedValues(result, reference, referenceCoords, metric) ==
    IF metric = RelativeSquaredError2
    THEN [c \in 1..Len(result) |->
            relativeSquaredError2(result, referenceValues(reference, Len(result), referenceCoords))]
    ELSE [i \in 1..Len(result) |->
            metricValue(result[i],
                        IF i <= Len(reference.channels)
                        THEN evalAt(reference.channels[i], reference.size, referenceCoords)
                        ELSE Zero,
                        metric)]

\* ImageCanvas::getValuesAtNanoPos(nanoPos, result, channels) with the channels of the
\* requested group: the contents of result afterwards
getValuesAtNanoPos(image, reference, metric, nanoPos) ==
    IF image = NoPicture THEN <<>>
    ELSE IF reference = NoPicture THEN imageValues(image, getImageCoords(image, nanoPos))
    ELSE comparedValues(imageValues(image, getImageCoords(image, nanoPos)),
                        reference, getImageCoords(reference, nanoPos), metric)

\* the reads of channels of the reference getValuesAtNanoPos makes
nanoReads(image, reference, metric, nanoPos) ==
    IF image = NoPicture \/ reference = NoPicture THEN {}
    ELSE {[channel |-> c, pos |-> getImageCoords(reference, nanoPos)] :
            c \in referenceIndices(image, reference, metric)}
(***************************************************************************)
(* The buffers of an export: getHdrImageData, getLdrImageData              *)
(***************************************************************************)
\* channels[i].data()(j): the value of a flattened channel at the flat index j
flatValue(channel, width, j) == channel.data[(j \div width) + 1][(j % width) + 1]

\* result[j * 4 + i] before the division by alpha, over the first n channels
flattenedSlot(channels, n, width, j, i) ==
    IF i < n THEN flatValue(channels[i + 1], width, j)
    ELSE IF i = 3 THEN One
    ELSE Zero

\* result[j * 4 + i] /= alpha, or 0 when alpha == 0
dividedSlot(value, alpha) ==
    IF alpha = Undefined THEN Undefined
    ELSE IF alpha = Zero THEN Zero
    ELSE lifted(fdiv, value, alpha)

\* result[j * 4 + i] of getHdrImageData
hdrSlot(channels, n, width, divideAlpha, j, i) ==
    IF divideAlpha /\ i < (IF n < 3 THEN n ELSE 3)
    THEN dividedSlot(flattenedSlot(channels, n, width, j, i), flattenedSlot(channels, n, width, j, 3))
    ELSE flattenedSlot(channels, n, width, j, i)

hdrOf(channels, n, width, numPixels, divideAlpha) ==
    [k \in 1..(4 * numPixels) |-> hdrSlot(channels, n, width, divideAlpha, (k - 1) \div 4, (k - 1) % 4)]

\* ImageCanvas::getHdrImageData(divideAlpha) of a canvas with the image, the reference and
\* the metric
getHdrImageData(image, reference, metric, divideAlpha) ==
    IF image = NoPicture THEN <<>>
    ELSE IF Len(image.channels) = 0 THEN <<>>
    ELSE hdrOf(channelsFromImages(image, reference, metric),
               IF Len(image.channels) < 4 THEN Len(image.channels) ELSE 4,
               image.size[1], image.size[1] * image.size[2], divideAlpha)

\* pow(2.0f, mExposure) for the exposure the canvas is constructed with
exp2(exposure) == CASE exposure = 0 -> One

\* ImageCanvas::applyExposureAndOffset(value); mOffset is held in thousandths
applyExposureAndOffset(s, value) ==
    IF value = Undefined THEN Undefined
    ELSE fadd(fmul(exp2(s.canvas.mExposure), value), flt(s.canvas.mOffset, 1000))

\* (char)(value * 255 + 0.5f): the bits of the char as a number of 0..255
toChar(value) ==
    IF value = Undefined THEN Undefined
    ELSE cdiv(fadd(fmul(value, flt(255, 1)), flt(1, 2)).n, fadd(fmul(value, flt(255, 1)), flt(1, 2)).d) % 256

\* the three colour values of a pixel after exposure, offset and tonemap
tonemapped(s, colour) ==
    IF \E k \in 1..3 : colour[k] = Undefined THEN [k \in 1..3 |-> Undefined]
    ELSE applyTonemap(colour, flt(s.canvas.mGamma, 1000), s.canvas.mTonemap).v

colourOf(s, floatData, start) ==
    tonemapped(s, [k \in 1..3 |-> applyExposureAndOffset(s, floatData[start + k])])

ldrOf(s, floatData) ==
    [k \in 1..Len(floatData) |->
        IF (k - 1) % 4 < 3 THEN toChar(colourOf(s, floatData, 4 * ((k - 1) \div 4))[((k - 1) % 4) + 1])
        ELSE toChar(floatData[k])]

\* ImageCanvas::getLdrImageData(divideAlpha); with pixels and an empty floatData the loop
\* reads and writes beyond the end of two empty vectors
getLdrImageData(s, image, reference, metric, divideAlpha) ==
    IF image = NoPicture THEN <<>>
    ELSE IF Len(getHdrImageData(image, reference, metric, divideAlpha)) = 0 THEN Undefined
    ELSE ldrOf(s, getHdrImageData(image, reference, metric, divideAlpha))

(***************************************************************************)
(* The pixel operations as pure functions                                  *)
(***************************************************************************)
PixelValues == {Zero, One}

PixelImages ==
    Pictures(<<2, 1>>, <<"R">>, PixelValues) \cup Pictures(<<2, 1>>, <<"R", "A">>, PixelValues)
        \cup Pictures(<<1, 1>>, <<"R", "G", "B", "A">>, PixelValues)
        \cup Pictures(<<1, 1>>, <<>>, PixelValues)

PixelReferences ==
    {NoPicture} \cup Pictures(<<2, 1>>, <<"R">>, PixelValues) \cup Pictures(<<2, 1>>, <<"R", "A">>, PixelValues)
        \cup Pictures(<<1, 1>>, <<"R">>, PixelValues) \cup Pictures(<<1, 1>>, <<"R", "G", "B", "A">>, PixelValues)

\* positions of the mouse on the canvas: on the two pixels of a 2x1 image, and off it
NanoPositions == {<<2, 1>>, <<3, 1>>, <<0, 0>>}

InitPixels ==
    /\ InitCommon /\ threadedDialogs = TRUE
    /\ args \in [image : PixelImages \cup {NoPicture}, reference : PixelReferences, metric : 0..(NumMetrics - 1)]
    /\ returned = [kind |-> "none"]

ChannelsFromImages ==
    /\ returned.kind = "none"
    /\ Returns("channelsFromImages",
               Value(channelsFromImages(args.image, args.reference, args.metric))
                   @@ [reads |-> flattenReads(args.image, args.reference, args.metric)])

GetValuesAtNanoPos ==
    /\ returned.kind = "none"
    /\ \E nanoPos \in NanoPositions :
          Returns("getValuesAtNanoPos",
                  Value(getValuesAtNanoPos(args.image, args.reference, args.metric, nanoPos))
                      @@ [nanoPos |-> nanoPos,
                          reads |-> nanoReads(args.image, args.reference, args.metric, nanoPos)])

GetHdrImageData ==
    /\ returned.kind = "none"
    /\ \E divideAlpha \in BOOLEAN :
          Returns("getHdrImageData",
                  Value(getHdrImageData(args.image, args.reference, args.metric, divideAlpha))
                      @@ [divideAlpha |-> divideAlpha])

\* the float data on which pow above is defined for the tonemap of the canvas
ExportDomain(floatData) ==
    \A k \in 1..Len(floatData) :
        (k - 1) % 4 < 3 /\ floatData[k] # Undefined => ~fless(Zero, floatData[k]) \/ floatData[k] = One

GetLdrImageData ==
    /\ returned.kind = "none"
    /\ \E divideAlpha \in BOOLEAN :
          /\ ExportDomain(getHdrImageData(args.image, args.reference, args.metric, divideAlpha))
          /\ Returns("getLdrImageData",
                     Value(getLdrImageData(St, args.image, args.reference, args.metric, divideAlpha))
                         @@ [divideAlpha |-> divideAlpha])

NextPixels == ChannelsFromImages \/ GetValuesAtNanoPos \/ GetHdrImageData \/ GetLdrImageData

SpecPixels == InitPixels /\ [][NextPixels]_vars
(***************************************************************************)
(* Properties of the values under a reference                              *)
(***************************************************************************)
\* channelsFromImages or getValuesAtNanoPos has returned for an image under a reference
Compared(fn) ==
    /\ returned.kind = "value" /\ returned.fn = fn
    /\ args.image # NoPicture /\ args.reference # NoPicture

alphaChannels(image) == {c \in 1..Len(image.channels) : image.channels[c].name = "A"}

\* the reference has the alpha channel of the image at the same index
referenceAlpha(reference, c) == c <= Len(reference.channels) /\ reference.channels[c].name = "A"

\* C16: when a reference is set and the channel group holds an alpha channel and at least one
\* other channel, channelsFromImages stores for the alpha channel, at every pixel and for
\* every metric, the average of the alpha of the image and the alpha of the reference at the
\* corresponding position: alpha is not compared by the metric and does not enter the joint
\* value of RelativeSquaredError2.
C16_AlphaAveraged ==
    Compared("channelsFromImages") /\ ~onlyAlpha(args.image) =>
        \A c \in alphaChannels(args.image) : \A p \in pixelsOf(args.image) :
            /\ referenceAlpha(args.reference, c)
            /\ plus(p, offsetOf(args.image, args.reference)) \in pixelsOf(args.reference)
            => returned.v[c].data[p[2] + 1][p[1] + 1] =
                  average(evalAt(args.image.channels[c], args.image.size, p),
                          evalAt(args.reference.channels[c], args.reference.size,
                                 plus(p, offsetOf(args.image, args.reference))))

\* the value of channel c of a pixel with the given values when the reference value is 0
againstZero(values, c, metric) ==
    IF metric = RelativeSquaredError2
    THEN relativeSquaredError2(values, [k \in 1..Len(values) |-> Zero])
    ELSE applyMetric(values[c], Zero, metric).v

\* the channels that are compared by the metric
comparedChannels(image) ==
    {c \in 1..Len(image.channels) : onlyAlpha(image) \/ image.channels[c].name # "A"}

\* C17: for every pixel of the image whose corresponding position in the reference,
\* pixel + (referenceSize - imageSize) / 2, lies outside the reference, getValuesAtNanoPos and
\* channelsFromImages use 0 as the reference value; no channel of the reference is read at a
\* position outside its data or through an index beyond the list of the reference channels.
C17_ReferenceLookupsInRange ==
    /\ Compared("channelsFromImages") =>
          /\ \A r \in returned.reads :
                r.channel <= Len(args.reference.channels) /\ r.pos \in pixelsOf(args.reference)
          /\ \A c \in comparedChannels(args.image) : \A p \in pixelsOf(args.image) :
                plus(p, offsetOf(args.image, args.reference)) \notin pixelsOf(args.reference) =>
                    returned.v[c].data[p[2] + 1][p[1] + 1] =
                        againstZero(imageValues(args.image, p), c, args.metric)
    /\ Compared("getValuesAtNanoPos") =>
          /\ \A r \in returned.reads :
                r.channel <= Len(args.reference.channels) /\ r.pos \in pixelsOf(args.reference)
          /\ \A c \in 1..Len(args.image.channels) :
                /\ getImageCoords(args.image, returned.nanoPos) \in pixelsOf(args.image)
                /\ plus(getImageCoords(args.image, returned.nanoPos), offsetOf(args.image, args.reference))
                       \notin pixelsOf(args.reference)
                => returned.v[c] =
                      againstZero(imageValues(args.image, getImageCoords(args.image, returned.nanoPos)),
                                  c, args.metric)
(***************************************************************************)
(* Properties of the export                                                *)
(***************************************************************************)
\* C20: with exposure 0, offset 0, the sRGB tonemap, the metric AbsoluteError and a reference
\* of the size and channel group of the image whose pixels equal those of the image,
\* getLdrImageData returns a buffer in which the R, G and B bytes of every pixel are 0.
C20_EqualReferenceIsBlack ==
    /\ returned.kind = "value" /\ returned.fn = "getLdrImageData"
    /\ args.image # NoPicture /\ args.reference = args.image
    /\ args.metric = AbsoluteError
    /\ canvas.mExposure = 0 /\ canvas.mOffset = 0 /\ canvas.mTonemap = SRGB
    => /\ returned.v # Undefined
       /\ Len(returned.v) = 4 * Cardinality(pixelsOf(args.image))
       /\ \A k \in 1..Len(returned.v) : (k - 1) % 4 < 3 => returned.v[k] = 0
(***************************************************************************)
(* ImageCanvas::computeCanvasStatistics: the histogram                     *)
(***************************************************************************)
NUM_BINS == 400

fneg(a) == flt(-a.n, a.d)

\* ImageCanvas::applyHistogramSpace(value, space, false)
applyHistogramSpace(value, space) ==
    CASE space = Log -> Value(log(value))
      [] space = Linear -> Value(value)
      [] OTHER -> Thrown

\* const float addition, const float smallest
addition(space) == IF space = Log THEN flt(1, 1000) ELSE Zero
smallest(space) == applyHistogramSpace(addition(space), space).v

\* the lambda symmetricOperation
symmetricOperation(val, space) ==
    IF fless(Zero, val)
    THEN fsub(applyHistogramSpace(fadd(val, addition(space)), space).v, smallest(space))
    ELSE fneg(fsub(applyHistogramSpace(fadd(fneg(val), addition(space)), space).v, smallest(space)))

\* the channel the loop over flattened finds under the name A, 0 when all channels or none
\* are alpha
alphaPosition(flattened) ==
    IF \A c \in 1..Len(flattened) : flattened[c].name = "A" THEN 0
    ELSE IF \E c \in 1..Len(flattened) : flattened[c].name = "A"
    THEN CHOOSE c \in 1..Len(flattened) :
            flattened[c].name = "A" /\ \A b \in 1..(c - 1) : flattened[b].name # "A"
    ELSE 0

\* swap(channel, flattened.back()) when the alpha channel is not the last one
alphaLast(flattened, k) ==
    IF k # 0 /\ k # Len(flattened)
    THEN [flattened EXCEPT ![k] = flattened[Len(flattened)], ![Len(flattened)] = flattened[k]]
    ELSE flattened

\* the values of the first nChannels channels
coefficients(flattened, nChannels) ==
    UNION {UNION {{flattened[i].data[y][x] : x \in DOMAIN flattened[i].data[y]} :
                    y \in DOMAIN flattened[i].data} : i \in 1..nChannels}

minCoeff(values) == CHOOSE v \in values : \A w \in values : ~fless(w, v)
maxCoeff(values) == CHOOSE v \in values : \A w \in values : ~fless(v, w)

clamp(v, lo, hi) == IF v < lo THEN lo ELSE IF v > hi THEN hi ELSE v

\* the lambda valToBin; with diffVal = 0 the quotient is not a number and its conversion to
\* int is undefined: nanAsInt is the int the conversion yields
valToBin(val, minVal, diffVal, space, nanAsInt) ==
    clamp(IF diffVal = Zero THEN nanAsInt
          ELSE cdiv(fdiv(fmul(flt(NUM_BINS, 1), fsub(symmetricOperation(val, space), minVal)), diffVal).n,
                    fdiv(fmul(flt(NUM_BINS, 1), fsub(symmetricOperation(val, space), minVal)), diffVal).d),
          0, NUM_BINS - 1)

\* the locals of computeCanvasStatistics when the loops over the pixels begin: flattened
\* after the swap, alphaChannel as the position it points to (0 for nullptr), the cells of
\* indices and of result->histogram written so far, and the writes of the pool tasks
locals(flattened, k, nChannels, image, space, nanAsInt) ==
    [phase |-> "binning", flattened |-> flattened, alphaChannel |-> k, nChannels |-> nChannels,
     numElements |-> image.size[1] * image.size[2], width |-> image.size[1],
     histogramSpace |-> space, nanAsInt |-> nanAsInt,
     minVal |-> symmetricOperation(minCoeff(coefficients(flattened, nChannels)), space),
     diffVal |-> fsub(symmetricOperation(maxCoeff(coefficients(flattened, nChannels)), space),
                      symmetricOperation(minCoeff(coefficients(flattened, nChannels)), space)),
     indices |-> <<>>, histogram |-> <<>>, next |-> [i \in 1..nChannels |-> 0], writes |-> {}]

\* computeCanvasStatistics up to the loops: with 0 channels it returns early
begun(flattened, k, image, space, nanAsInt) ==
    IF (IF k # 0 THEN Len(flattened) - 1 ELSE Len(flattened)) = 0
    THEN [phase |-> "returned", nChannels |-> 0]
    ELSE locals(alphaLast(flattened, k), k, IF k # 0 THEN Len(flattened) - 1 ELSE Len(flattened),
                image, space, nanAsInt)

computeCanvasStatistics(image, reference, metric, space, nanAsInt) ==
    begun(channelsFromImages(image, reference, metric),
          alphaPosition(channelsFromImages(image, reference, metric)), image, space, nanAsInt)

\* one call of the lambda of the first loop: indices(j, i) = valToBin(channel.eval(j))
indexed(c, j, i) ==
    [c EXCEPT !.indices = (<<j, i>> :> valToBin(flatValue(c.flattened[i], c.width, j), c.minVal, c.diffVal,
                                                 c.histogramSpace, c.nanAsInt)) @@ c.indices,
              !.writes = c.writes \cup {[matrix |-> "indices", cell |-> <<j, i>>, task |-> <<"index", i, j>>]}]

\* alphaChannel ? alphaChannel->eval(j) : 1
weight(c, j) == IF c.alphaChannel # 0 THEN flatValue(c.flattened[c.alphaChannel], c.width, j) ELSE One

\* result->histogram(bin, i) += w
added(c, bin, i, w) ==
    [c EXCEPT !.histogram = (<<bin, i>> :> fadd(IF <<bin, i>> \in DOMAIN c.histogram
                                                THEN c.histogram[<<bin, i>>] ELSE Zero, w)) @@ c.histogram,
              !.next[i] = c.next[i] + 1,
              !.writes = c.writes \cup {[matrix |-> "histogram", cell |-> <<bin, i>>, task |-> <<"column", i>>]}]

\* one round of the loop over j of the task of column i
accumulated(c, i) == added(c, c.indices[<<c.next[i], i>>], i, weight(c, c.next[i]))

\* pool.waitUntilFinished(): every cell of indices has been written
indexDone(c) == DOMAIN c.indices = (0..(c.numElements - 1)) \X (1..c.nChannels)

HistogramValues == {Zero, One}

HistogramImages ==
    Pictures(<<2, 1>>, <<"R">>, HistogramValues) \cup Pictures(<<2, 1>>, <<"R", "G">>, HistogramValues)
        \cup Pictures(<<2, 1>>, <<"R", "A">>, HistogramValues)
        \cup Pictures(<<2, 1>>, <<"A", "R">>, HistogramValues)
        \cup Pictures(<<2, 1>>, <<"A">>, HistogramValues) \cup Pictures(<<1, 1>>, <<>>, HistogramValues)

HistogramReferences == {NoPicture} \cup Pictures(<<2, 1>>, <<"R">>, HistogramValues)

\* what the conversion of a value that is not a number to int may yield
NanAsInt == {-2147483647 - 1, 0, 2147483647}

InitHistogram ==
    /\ InitCommon /\ threadedDialogs = TRUE
    /\ args \in [image : HistogramImages, reference : HistogramReferences,
                 metric : {Error, AbsoluteError}, histogramSpace : {Log, Linear}]
    /\ returned = [kind |-> "none"]

ComputeCanvasStatistics ==
    /\ statistics.phase = "none"
    /\ \E nanAsInt \in NanAsInt :
          Becomes([St EXCEPT !.statistics = computeCanvasStatistics(args.image, args.reference, args.metric,
                                                                     args.histogramSpace, nanAsInt)])

\* a task of the pool runs the lambda of the first loop for one j of one channel
IndexTask ==
    /\ statistics.phase = "binning"
    /\ \E j \in 0..(statistics.numElements - 1), i \in 1..statistics.nChannels :
          /\ <<j, i>> \notin DOMAIN statistics.indices
          /\ Becomes([St EXCEPT !.statistics = indexed(statistics, j, i)])

\* the task of one column runs one round of its loop over j
AccumulateTask ==
    /\ statistics.phase = "binning" /\ indexDone(statistics)
    /\ \E i \in 1..statistics.nChannels :
          /\ statistics.next[i] < statistics.numElements
          /\ Becomes([St EXCEPT !.statistics = accumulated(statistics, i)])

NextHistogram == ComputeCanvasStatistics \/ IndexTask \/ AccumulateTask

SpecHistogram == InitHistogram /\ [][NextHistogram]_vars

\* the accumulation loops have ended; the division by the bin widths has not begun
Accumulated ==
    /\ statistics.phase = "binning" /\ indexDone(statistics)
    /\ \A i \in 1..statistics.nChannels : statistics.next[i] = statistics.numElements

RECURSIVE sumOver(_, _)
sumOver(f, cells) ==
    IF cells = {} THEN Zero
    ELSE fadd(f[CHOOSE c \in cells : TRUE], sumOver(f, cells \ {CHOOSE c \in cells : TRUE}))

\* the sum of column i of result->histogram
columnSum(c, i) == sumOver(c.histogram, {cell \in DOMAIN c.histogram : cell[2] = i})

\* the alpha channel of the flattened group, when the histogram is weighted by alpha
alphaOf(flattened) == flattened[CHOOSE a \in 1..Len(flattened) : flattened[a].name = "A"]

alphaSum(c) ==
    sumOver([j \in 0..(c.numElements - 1) |-> flatValue(alphaOf(c.flattened), c.width, j)],
            0..(c.numElements - 1))

\* C18: when the accumulation loops of computeCanvasStatistics have ended and before the
\* division by the bin widths, the column of every channel that is not alpha sums to the
\* number of pixels of the image, or to the sum of the alpha values over all pixels when the
\* histogram is weighted by alpha; every pixel is binned once, at an index in [0, 399], also
\* when minimum = maximum; no two tasks of the pool write the same cell of indices or of the
\* histogram.
C18_HistogramSums ==
    statistics.phase = "binning" =>
        /\ \A cell \in DOMAIN statistics.indices :
              0 <= statistics.indices[cell] /\ statistics.indices[cell] <= NUM_BINS - 1
        /\ \A v, w \in statistics.writes : v.matrix = w.matrix /\ v.cell = w.cell => v.task = w.task
        /\ Accumulated =>
              \A i \in 1..statistics.nChannels :
                  columnSum(statistics, i) =
                      IF statistics.alphaChannel # 0 THEN alphaSum(statistics)
                      ELSE flt(statistics.numElements, 1)
(***************************************************************************)
(* The operations on the current image, with and without an image          *)
(***************************************************************************)
\* the pixels of a loaded image: every image is 2x1 and every channel holds 0 and 1; the
\* channels of the requested group are taken under the names of colours
ColourNames == <<"R", "G", "B">>

pictureOf(img, group) ==
    IF img = NoImage THEN NoPicture
    ELSE [size |-> <<2, 1>>,
          channels |-> [c \in 1..Len(channelsInGroup(img, group)) |->
                           [name |-> ColourNames[c], data |-> <<<<Zero, One>>>>]]]

\* value in thousandths, as the tonemapping values are held
thousandths(value) == (value.n * 1000) \div value.d

\* setExposure(log2(factor)); setOffset(-minimum * factor) with factor = 1 / (maximum - minimum)
normalized(s, minimum, factor) ==
    setOffset(setExposure(s, thousandths(log2(factor))),
              thousandths(fmul(fneg(minimum), factor)))

\* the loop over the channels of the current group; a current image has a current group
\* with channels
normalizedOver(s, values) == normalized(s, minCoeff(values), fdiv(One, fsub(maxCoeff(values), minCoeff(values))))

\* ImageViewer::normalizeExposureAndOffset
normalizeExposureAndOffset(s) ==
    IF s.mCurrentImage = NoImage THEN s
    ELSE normalizedOver(s, coefficients(pictureOf(s.mCurrentImage, s.mCurrentGroup).channels,
                                        Len(pictureOf(s.mCurrentImage, s.mCurrentGroup).channels)))

\* the call of fn on the state s leaves the state t and returns r
Answered(t, fn, r) == [t EXCEPT !.args = [fn |-> fn], !.returned = [fn |-> fn] @@ r]

\* mImageCanvas->getValuesAtNanoPos(nanoPos, values, channels)
CanvasValues ==
    /\ MayOperate
    /\ \E nanoPos \in NanoPositions :
          Becomes(Answered(BeginOp(St), "getValuesAtNanoPos",
                           Value(getValuesAtNanoPos(pictureOf(canvas.mImage, canvas.mRequestedChannelGroup),
                                                    pictureOf(canvas.mReference, canvas.mRequestedChannelGroup),
                                                    canvas.mMetric, nanoPos))))

\* mImageCanvas->getHdrImageData(divideAlpha)
CanvasHdrImageData ==
    /\ MayOperate
    /\ \E divideAlpha \in BOOLEAN :
          Becomes(Answered(BeginOp(St), "getHdrImageData",
                           Value(getHdrImageData(pictureOf(canvas.mImage, canvas.mRequestedChannelGroup),
                                                 pictureOf(canvas.mReference, canvas.mRequestedChannelGroup),
                                                 canvas.mMetric, divideAlpha))))

\* mImageCanvas->getLdrImageData(divideAlpha)
CanvasLdrImageData ==
    /\ MayOperate
    /\ \E divideAlpha \in BOOLEAN :
          Becomes(Answered(BeginOp(St), "getLdrImageData",
                           Value(getLdrImageData(St, pictureOf(canvas.mImage, canvas.mRequestedChannelGroup),
                                                 pictureOf(canvas.mReference, canvas.mRequestedChannelGroup),
                                                 canvas.mMetric, divideAlpha))))

\* mImageCanvas->canvasStatistics()
answeredStatistics(r) == Answered(r.s, "canvasStatistics", [kind |-> "value", handle |-> r.handle])

CanvasStatistics ==
    /\ MayOperate
    /\ Becomes(answeredStatistics(canvasStatistics(BeginOp(St))))

\* the Normalize button or the key N
NormalizeExposureAndOffset ==
    /\ MayOperate
    /\ Becomes(Answered(normalizeExposureAndOffset(BeginOp(St)), "normalizeExposureAndOffset", [kind |-> "void"]))

\* Ctrl+S or the save button
SaveCurrentImage ==
    /\ MayOperate
    /\ mFileDialogThread = NoThread /\ mCurrentImage # NoImage => Len(dialogThreads) < MaxDialogs
    /\ Becomes(Answered(saveImageDialog(BeginOp(St), "cancel"), "saveImageDialog", [kind |-> "void"]))

NextIdle ==
    \/ DropEvent \/ LoaderFinish \/ DrawContents \/ WorkerFinish \/ ClickReference
    \/ CanvasValues \/ CanvasHdrImageData \/ CanvasLdrImageData \/ CanvasStatistics
    \/ NormalizeExposureAndOffset \/ SaveCurrentImage

SpecIdle == Init /\ [][NextIdle]_vars

\* no image is loaded: the viewer has no current image and the canvas has none
NothingLoaded == mCurrentImage = NoImage /\ canvas.mImage = NoImage

\* the call that has just returned returned nothing
NothingReturned ==
    CASE returned'.fn \in {"getValuesAtNanoPos", "getHdrImageData", "getLdrImageData"} -> returned'.v = <<>>
      [] returned'.fn = "canvasStatistics" -> returned'.handle = 0
      [] OTHER -> returned'.kind = "void"

\* C15: with no image loaded, getValuesAtNanoPos yields no values, getHdrImageData and
\* getLdrImageData return empty buffers, canvasStatistics returns no handle and starts no
\* computation, normalizeExposureAndOffset and saveImageDialog return without effect; none
\* raises an error or changes the state of the viewer or of the canvas.
C15_NoImageNoEffect ==
    [][NothingLoaded /\ (CanvasValues \/ CanvasHdrImageData \/ CanvasLdrImageData \/ CanvasStatistics
                            \/ NormalizeExposureAndOffset \/ SaveCurrentImage)
          => UNCHANGED <<ViewerState, statistics>> /\ NothingReturned /\ ~crashed']_vars

\* normalizeExposureAndOffset and saveImageDialog have been called with no image loaded
C15_Witness ==
    /\ NothingLoaded /\ mImages = <<>>
    /\ returned # [kind |-> "none"] /\ returned.fn \in {"normalizeExposureAndOffset", "saveImageDialog"}
\* the channels of a flattened group that are not alpha, and its alpha channel
colourChannels(flattened) == SelectSeq(flattened, LAMBDA ch : ch.name # "A")
hasAlpha(flattened) == \E c \in 1..Len(flattened) : flattened[c].name = "A"

\* the alpha of pixel j of a flattened group, 1 when the group has no alpha channel
alphaAt(flattened, width, j) ==
    IF hasAlpha(flattened) THEN flatValue(alphaOf(flattened), width, j) ELSE One

\* colour component i of pixel j of a flattened group, 0 when the group has no such channel
colourAt(flattened, width, j, i) ==
    IF i < Len(colourChannels(flattened)) THEN flatValue(colourChannels(flattened)[i + 1], width, j)
    ELSE Zero

\* the colour component over the alpha of its pixel, 0 when that alpha is 0
overAlpha(value, alpha) ==
    IF alpha = Undefined THEN Undefined
    ELSE IF alpha = Zero THEN Zero
    ELSE lifted(fdiv, value, alpha)

\* C21: getHdrImageData returns 4 values per pixel of the image; the 4th value of a pixel is
\* the alpha of the channel group at that pixel, or 1 when the group has no alpha channel;
\* the colour components the group has no channel for are 0; with divideAlpha every colour
\* component is divided by the alpha of its pixel, or is 0 when that alpha is 0.
C21_FourValuesPerPixel ==
    /\ returned.kind = "value" /\ returned.fn = "getHdrImageData"
    /\ args.image # NoPicture /\ Len(args.image.channels) > 0
    => /\ Len(returned.v) = 4 * Cardinality(pixelsOf(args.image))
       /\ \A k \in 1..Len(returned.v) :
             returned.v[k] =
                 IF (k - 1) % 4 = 3
                 THEN alphaAt(channelsFromImages(args.image, args.reference, args.metric),
                              args.image.size[1], (k - 1) \div 4)
                 ELSE IF returned.divideAlpha
                 THEN overAlpha(colourAt(channelsFromImages(args.image, args.reference, args.metric),
                                         args.image.size[1], (k - 1) \div 4, (k - 1) % 4),
                                alphaAt(channelsFromImages(args.image, args.reference, args.metric),
                                        args.image.size[1], (k - 1) \div 4))
                 ELSE colourAt(channelsFromImages(args.image, args.reference, args.metric),
                               args.image.size[1], (k - 1) \div 4, (k - 1) % 4)
(***************************************************************************)
(* ImageCanvas: the transform of the canvas                                *)
(***************************************************************************)
MaxTransformOps == 4

\* an Affine2f: the linear part, by rows, and the translation
Affine2f(a, b, c, d, tx, ty) == [linear |-> <<<<a, b>>, <<c, d>>>>, translation |-> <<tx, ty>>]

Scaling(factor) == Affine2f(factor, Zero, Zero, factor, Zero, Zero)
Translation2f(amount) == Affine2f(One, Zero, Zero, One, amount[1], amount[2])

\* the product p * q of two transforms: q is applied first
product(p, q) ==
    [linear |-> [i \in 1..2 |-> [j \in 1..2 |->
                    fadd(fmul(p.linear[i][1], q.linear[1][j]), fmul(p.linear[i][2], q.linear[2][j]))]],
     translation |-> [i \in 1..2 |->
                    fadd(fadd(fmul(p.linear[i][1], q.translation[1]), fmul(p.linear[i][2], q.translation[2])),
                         p.translation[i])]]

\* Vector2i::cast<float>()
castFloat(v) == <<flt(v[1], 1), flt(v[2], 1)>>

\* ImageCanvas::translate(amount)
translate(transform, amount) == product(Translation2f(amount), transform)

\* pow(1.1f, amount) for one step of the wheel in either direction
pow11(amount) ==
    CASE amount = 1 -> flt(11, 10)
      [] amount = -1 -> flt(10, 11)

\* Vector2f offset = -(origin - position().cast<float>()) + 0.5f * mSize.cast<float>()
scaleOffset(origin, position, mSize) ==
    [k \in 1..2 |-> fadd(fneg(fsub(origin[k], castFloat(position)[k])), fmul(flt(1, 2), castFloat(mSize)[k]))]

\* Translation2f(-offset) * Scaling(scaleFactor) * Translation2f(offset)
scaleTransform(scaleFactor, offset) ==
    product(Translation2f(<<fneg(offset[1]), fneg(offset[2])>>),
            product(Scaling(scaleFactor), Translation2f(offset)))

\* ImageCanvas::scale(amount, origin) of a canvas at the position and of the size
scale(transform, amount, origin, position, mSize) ==
    product(scaleTransform(pow11(amount), scaleOffset(origin, position, mSize)), transform)

\* mSize.cast<float>().cwiseQuotient(nanoguiImageSize), nanoguiImageSize = size / mPixelRatio
fitQuotient(mSize, mPixelRatio, size) ==
    [k \in 1..2 |-> fdiv(castFloat(mSize)[k], fdiv(castFloat(size)[k], mPixelRatio))]

\* the transform that keeps the translation, in place of the assignment of the scaling
fitImageToScreenKeeping(transform, mSize, mPixelRatio, size) ==
    [transform EXCEPT !.linear = Scaling(fmin(fitQuotient(mSize, mPixelRatio, size)[1],
                                              fitQuotient(mSize, mPixelRatio, size)[2])).linear]

\* ImageCanvas::fitImageToScreen(image) for an image of the size
fitImageToScreen(transform, mSize, mPixelRatio, size) ==
    Scaling(fmin(fitQuotient(mSize, mPixelRatio, size)[1], fitQuotient(mSize, mPixelRatio, size)[2]))

\* ImageCanvas::resetTransform()
resetTransform(transform) == Identity

(***************************************************************************)
(* Specification of the transform of the canvas                            *)
(***************************************************************************)
CanvasSizes == {<<4, 2>>, <<3, 3>>}
PixelRatios == {One, flt(2, 1)}
ImageSizes == {<<2, 1>>, <<1, 2>>, <<4, 4>>}
TranslateAmounts == {<<One, Zero>>, <<Zero, fneg(One)>>}
ScaleAmounts == {1, -1}
ScaleOrigins == {<<Zero, Zero>>, <<flt(2, 1), One>>}

\* the canvas of the size at the position, with the pixel ratio, showing an image of the size
InitTransform ==
    /\ InitCommon /\ threadedDialogs = TRUE
    /\ args \in [mSize : CanvasSizes, position : {<<0, 0>>, <<1, 0>>}, mPixelRatio : PixelRatios,
                 size : ImageSizes]
    /\ returned = [kind |-> "none"]

\* the transform becomes t by the call of fn
Transformed(fn, t) ==
    Becomes([BeginOp(St) EXCEPT !.canvas.mTransform = t,
                                !.returned = [kind |-> "void", fn |-> fn, before |-> canvas.mTransform]])

MayTransform == ops < MaxTransformOps

Translate ==
    /\ MayTransform
    /\ \E amount \in TranslateAmounts : Transformed("translate", translate(canvas.mTransform, amount))

Scale ==
    /\ MayTransform
    /\ \E amount \in ScaleAmounts, origin \in ScaleOrigins :
          Transformed("scale", scale(canvas.mTransform, amount, origin, args.position, args.mSize))

ResetTransform ==
    /\ MayTransform
    /\ Transformed("resetTransform", resetTransform(canvas.mTransform))

FitImageToScreen ==
    /\ MayTransform
    /\ Transformed("fitImageToScreen",
                   fitImageToScreen(canvas.mTransform, args.mSize, args.mPixelRatio, args.size))

NextTransform == Translate \/ Scale \/ ResetTransform \/ FitImageToScreen

SpecTransform == InitTransform /\ [][NextTransform]_vars

\* the extent of the image on axis k on the canvas under a uniform scaling by the factor
scaledExtent(factor, k) == fmul(factor, fdiv(castFloat(args.size)[k], args.mPixelRatio))

\* the transform is the uniform scaling by the factor, without translation
PureScaling(transform, factor) ==
    /\ transform.linear = <<<<factor, Zero>>, <<Zero, factor>>>>
    /\ transform.translation = <<Zero, Zero>>

\* the factor fits the image within the canvas
Fits(factor) ==
    /\ \A k \in 1..2 : ~fless(castFloat(args.mSize)[k], scaledExtent(factor, k))
    /\ \E k \in 1..2 : scaledExtent(factor, k) = castFloat(args.mSize)[k]
    /\ \A k \in 1..2 : ~fless(fdiv(castFloat(args.mSize)[k], fdiv(castFloat(args.size)[k], args.mPixelRatio)), factor)
    /\ \E k \in 1..2 : factor = fdiv(castFloat(args.mSize)[k], fdiv(castFloat(args.size)[k], args.mPixelRatio))

\* C22: after fitImageToScreen(image), whatever translate, scale and resetTransform calls
\* preceded it, the transform is a uniform scaling without translation whose factor is the
\* minimum over both axes of canvasSize / (imageSize / pixelRatio); the scaled image does not
\* exceed the canvas on either axis and matches it on one; a second call leaves the transform
\* of the first.
C22_FitIsPureScaling ==
    /\ [](returned.kind = "void" /\ returned.fn = "fitImageToScreen" =>
            /\ PureScaling(canvas.mTransform, canvas.mTransform.linear[1][1])
            /\ Fits(canvas.mTransform.linear[1][1]))
    /\ [][returned.kind = "void" /\ returned.fn = "fitImageToScreen" /\ FitImageToScreen
             => canvas' = canvas]_vars

\* fitImageToScreen has been called on a transform that translates and scales
C22_Witness ==
    /\ returned.kind = "void" /\ returned.fn = "fitImageToScreen"
    /\ returned.before.translation[1] # Zero /\ returned.before.translation[2] # Zero
    /\ returned.before.linear[1][1] \notin {Zero, One}
    /\ returned.before.linear # canvas.mTransform.linear
(***************************************************************************)
(* ImageCanvas::drawGL                                                     *)
(***************************************************************************)
\* the calls of mShader.draw: the checkerboard alone, one image, image and reference
Checkerboard == [mode |-> "checkerboard"]
OneImage(image) == [mode |-> "image", image |-> image]
Composite(image, reference) == [mode |-> "composite", image |-> image, reference |-> reference]

\* what the shader draws for the image once it is chosen
drawn(c, image, leftControl) ==
    IF image = NoImage THEN Checkerboard
    ELSE IF c.mReference = NoImage \/ leftControl \/ image = c.mReference THEN OneImage(image)
    ELSE Composite(c.mImage, c.mReference)

\* drawGL that tests the image of the canvas, whatever the keys
drawGLCurrent(c, leftShift, leftControl) ==
    IF c.mImage = NoImage THEN Checkerboard
    ELSE drawn(c, IF c.mReference # NoImage /\ leftShift THEN c.mReference ELSE c.mImage, leftControl)

\* ImageCanvas::drawGL with the state of the keys left Shift and left Control
drawGL(c, leftShift, leftControl) ==
    drawn(c, IF c.mReference # NoImage /\ leftShift THEN c.mReference ELSE c.mImage, leftControl)

\* the canvas is drawn in a frame
DrawGL ==
    /\ Alive
    /\ \E leftShift \in BOOLEAN, leftControl \in BOOLEAN :
          Becomes(Answered(St, "drawGL", Value(drawGL(canvas, leftShift, leftControl))
                                             @@ [leftShift |-> leftShift, leftControl |-> leftControl]))

NextDraw ==
    \/ DropEvent \/ LoaderFinish \/ ClickReference \/ SetFilter
    \/ DrawContents \/ WorkerFinish \/ DrawGL

SpecDraw == Init /\ [][NextDraw]_vars

\* the composite is drawn of the image and the reference of the canvas, both present
CompositeOfBoth(r) ==
    r.v.mode = "composite" =>
        /\ canvas.mImage # NoImage /\ canvas.mReference # NoImage
        /\ r.v = Composite(canvas.mImage, canvas.mReference)

\* the mode of the claim as stated, for the call that returned r
modeByCurrentImage(r) ==
    IF canvas.mImage = NoImage THEN "checkerboard"
    ELSE IF canvas.mReference = NoImage \/ r.leftControl \/ r.leftShift THEN "image"
    ELSE "composite"

primaryImage(r) == IF canvas.mReference # NoImage /\ r.leftShift THEN canvas.mReference ELSE canvas.mImage

\* what is drawn for the primary image, for the call that returned r
drawnByPrimaryImage(r) ==
    IF primaryImage(r) = NoImage THEN Checkerboard
    ELSE IF canvas.mReference = NoImage \/ r.leftControl \/ primaryImage(r) = canvas.mReference
    THEN OneImage(primaryImage(r))
    ELSE Composite(canvas.mImage, canvas.mReference)

atLoop == runTasks(popLoader(St)).s

\* bool isShown of the loop
isShown(s, image) == image = s.mCurrentImage \/ image = s.mCurrentReference

\* the statistics of the selection of s, as canvasStatistics() hands them out
statisticsOf(s) == canvasStatistics(s).s.mMeanValues[canvasStatistics(s).handle]

\* the statistics of the selection of s have been ready for more than 200 ms
readyLongEnough(s) == canvasStatistics(s).handle # 0 /\ readyForOver200ms(statisticsOf(s))

\* the statistics of the selection of s are being computed
beingComputed(s) ==
    /\ canvasStatistics(s).handle # 0 /\ canvasStatistics(s).handle <= Len(s.mMeanValues)
    /\ ~isReady(statisticsOf(s))

\* C24: draw_contents() bumps the id of an image of mToBump that is still the current image
\* or the current reference only when the statistics of the current selection have been
\* ready for more than 200 ms; while such an image is shown and the statistics are being
\* computed, updateImage() and a frame that leaves the selection alone start no further
\* computation; an image of mToBump that is no longer shown is bumped in the next frame.
C24_BumpThrottled ==
    /\ [][DrawContents =>
             /\ \A image \in mToBump :
                   /\ isShown(atLoop, image) /\ imageIds'[image] # imageIds[image] => readyLongEnough(atLoop)
                   /\ ~isShown(atLoop, image) => image \notin mToBump' /\ imageIds'[image] # imageIds[image]
             /\ (\E image \in mToBump : isShown(atLoop, image)) /\ beingComputed(atLoop) /\ canvas' = canvas
                   => Len(mMeanValues') = Len(mMeanValues)]_vars
    /\ [][UpdateImage => mMeanValues' = mMeanValues]_vars

\* C26: whenever the loop over mToBump of draw_contents() treats an image as shown and
\* dereferences mImageCanvas->canvasStatistics(), the call returns a handle that is not
\* null: no frame begins its loop with an image in mToBump that is the current reference
\* while no current image is selected.
C26_StatisticsHandleNotNull ==
    [][DrawContents =>
          \A image \in atLoop.mToBump :
              isShown(atLoop, image) => /\ canvasStatistics(atLoop).handle # 0
                                        /\ atLoop.mCurrentImage # NoImage]_vars
(***************************************************************************)
(* The image list, its buttons and the drag of an image button             *)
(***************************************************************************)
MaxListImages == 3
MaxListOps == 5

\* mouse_button_event, button down on the visible image button at position i: the drag
\* begins, and the button, which takes the event, selects its image
grabImageButton(s, i) ==
    selectImage([s EXCEPT !.mDragType = "ImageButtonDrag", !.mDraggedImageButtonId = i],
                s.mImageButtonContainer[i + 1])

\* mouse_motion_event_f, case ImageButtonDrag, with the mouse over the visible button at
\* position hit, or over none (-1); TEV_ASSERT ends the handler with an exception
dragImageButton(s, hit) ==
    IF s.mDragType # "ImageButtonDrag" THEN s
    ELSE IF ~(s.mDraggedImageButtonId < Len(s.mImageButtonContainer)) THEN [s EXCEPT !.crashed = TRUE]
    ELSE IF hit = -1 \/ hit = s.mDraggedImageButtonId THEN s
    ELSE [moveImageInList(s, s.mDraggedImageButtonId, hit) EXCEPT !.mDraggedImageButtonId = hit]

MayList == Alive /\ ops < MaxListOps

\* a new Image object, as the loader creates it
created(s, image) == [s EXCEPT !.imageIds = mapSet(s.imageIds, {image}, s.sId), !.sId = s.sId + 1]

\* the call of a list operation, for the properties
Listed(s, call) == [BeginOp(s) EXCEPT !.args = call, !.returned = [kind |-> "void"]]

\* the images a caller can name: those of the list and one that was removed from it
Nameable == Range(mImages) \cup (DOMAIN imageIds)

InsertImage ==
    /\ MayList /\ Cardinality(DOMAIN imageIds) < MaxListImages
    /\ \E index \in 0..Len(mImages), shallSelect \in BOOLEAN :
          Becomes(Listed(insertImage(created(St, Cardinality(DOMAIN imageIds) + 1),
                                     Cardinality(DOMAIN imageIds) + 1, index, shallSelect),
                         [fn |-> "insertImage", image |-> Cardinality(DOMAIN imageIds) + 1, index |-> index]))

RemoveImage ==
    /\ MayList
    /\ \E image \in Nameable :
          Becomes(Listed(removeImage(St, image), [fn |-> "removeImage", image |-> image]))

RemoveAllImages ==
    /\ MayList
    /\ Becomes(Listed(removeAllImages(St), [fn |-> "removeAllImages"]))

ReplaceImage ==
    /\ MayList /\ Cardinality(DOMAIN imageIds) < MaxListImages
    /\ \E image \in Nameable, shallSelect \in BOOLEAN :
          Becomes(Listed(replaceImage(created(St, Cardinality(DOMAIN imageIds) + 1), image,
                                      Cardinality(DOMAIN imageIds) + 1, shallSelect),
                         [fn |-> "replaceImage", image |-> image,
                          replacement |-> Cardinality(DOMAIN imageIds) + 1,
                          id |-> imageId(St, image), selected |-> mCurrentImage = image]))

SelectImage ==
    /\ MayList
    /\ \E image \in Range(mImages) \cup {NoImage} :
          Becomes(Listed(selectImage(St, image), [fn |-> "selectImage", image |-> image]))

SelectReference ==
    /\ MayList
    /\ \E image \in Range(mImages) \cup {NoImage} :
          Becomes(Listed(selectReference(St, image), [fn |-> "selectReference", image |-> image]))

\* text typed into the filter box, or a filter update that a selection has requested,
\* and the updateFilter() of the next frame
UpdateFilter ==
    /\ MayList
    /\ \E filter \in Filters :
          /\ filter # mFilter \/ mRequiresFilterUpdate
          /\ Becomes(Listed([updateFilter([St EXCEPT !.mFilter = filter]) EXCEPT !.mRequiresFilterUpdate = FALSE],
                            [fn |-> "updateFilter"]))

MouseDownOnImageButton ==
    /\ MayList /\ mDragType = "None"
    /\ \E i \in 0..(Len(mImageButtonContainer) - 1) :
          /\ visibleAt(St, i)
          /\ Becomes(Listed(grabImageButton(St, i), [fn |-> "mouse_button_event", down |-> TRUE]))

DragImageButton ==
    /\ MayList /\ mDragType = "ImageButtonDrag"
    /\ \E hit \in {-1} \cup {i \in 0..(Len(mImageButtonContainer) - 1) : visibleAt(St, i)} :
          Becomes(Listed(dragImageButton(St, hit), [fn |-> "mouse_motion_event_f", hit |-> hit]))

MouseUp ==
    /\ MayList /\ mDragType = "ImageButtonDrag"
    /\ Becomes(Listed(mouse_button_event(St, <<0, 0>>, FALSE, FALSE), [fn |-> "mouse_button_event", down |-> FALSE]))

NextList ==
    \/ InsertImage \/ RemoveImage \/ RemoveAllImages \/ ReplaceImage \/ SelectImage \/ SelectReference
    \/ UpdateFilter \/ MouseDownOnImageButton \/ DragImageButton \/ MouseUp

SpecList == Init /\ [][NextList]_vars

\* C25: whenever mDragType is ImageButtonDrag, mDraggedImageButtonId is smaller than the
\* number of image buttons, and while the drag goes on it designates the button that was
\* grabbed, whatever insertImage, removeImage, removeAllImages, replaceImage and
\* moveImageInList calls are made during the drag.
C25_DraggedButtonInRange ==
    /\ [](mDragType = "ImageButtonDrag" => mDraggedImageButtonId < Len(mImageButtonContainer))
    /\ [][mDragType = "ImageButtonDrag" /\ mDragType' = "ImageButtonDrag"
             /\ mDraggedImageButtonId < Len(mImageButtonContainer)
             => /\ mDraggedImageButtonId' < Len(mImageButtonContainer')
                /\ mImageButtonContainer'[mDraggedImageButtonId' + 1]
                       = mImageButtonContainer[mDraggedImageButtonId + 1]]_vars

\* the image list and the list of image buttons have the same length and the same order:
\* the button at every position is the button of the image at that position
listsMatch ==
    /\ Len(mImageButtonContainer) = Len(mImages)
    /\ \A k \in 1..Len(mImages) : mImageButtonContainer[k] = mImages[k]

\* the current image and the current reference are null or elements of the image list
selectionListed ==
    /\ mCurrentImage \in Range(mImages) \cup {NoImage}
    /\ mCurrentReference \in Range(mImages) \cup {NoImage}

\* replaceImage of an image of the list puts the replacement at the position of the image,
\* leaves the other positions alone and selects the replacement where the image was selected
replacedInPlace ==
    ReplaceImage /\ args'.id # -1
        => /\ Len(mImages') = Len(mImages)
           /\ \A k \in 1..Len(mImages) :
                 mImages'[k] = IF k = args'.id + 1 THEN args'.replacement ELSE mImages[k]
           /\ args'.selected => mCurrentImage' = args'.replacement
           /\ mCurrentReference = args'.image => mCurrentReference' = args'.replacement

\* C27: after every completed operation among insertImage, removeImage, removeAllImages,
\* replaceImage, moveImageInList, selectImage, selectReference and updateFilter, the image
\* list and the list of image buttons have equal length and matching order, and the current
\* image and the current reference are each null or an element of the image list;
\* replaceImage keeps the list position of the replaced image and keeps it selected if it
\* was selected.
C27_ListsAndSelection ==
    /\ [](listsMatch /\ selectionListed)
    /\ [][replacedInPlace]_vars

\* an image that is selected, is the reference and is first of two images has been replaced
C27_Witness ==
    /\ args.fn = "replaceImage" /\ args.id = 0 /\ args.selected
    /\ Len(mImages) = 2 /\ mImages[1] = args.replacement
    /\ mCurrentImage = args.replacement /\ mCurrentReference = args.replacement

====
